---- MODULE Spec2Model ----
(***************************************************************************)
(* Model of the gltf-transform command planner / builder / multi-step      *)
(* executor (GltfTransformExecutor), the option normalisation done by the  *)
(* callers, and the result cache used by GltfProcessor.                    *)
(*                                                                         *)
(* Strings that the code only compares or concatenates are TLA+ strings.   *)
(* Paths are sequences of tokens ("models", "/", "a", ".glb") so that      *)
(* path.extname / basename / dirname / join are computed, not assumed.     *)
(* stderr texts are sequences of characters so that the keyword regexp is  *)
(* computed character by character.                                        *)
(***************************************************************************)
EXTENDS Integers, Sequences, FiniteSets, TLC

(***************************************************************************)
(* Bounds                                                                  *)
(***************************************************************************)
\* largest number of option flags set in one enumerated request
MaxFlags == 3

\* number of calls made to the cached operations in one behaviour
MaxCalls == 2

\* last instant of the clock; time is counted in units of 3600 seconds
MaxTime == 2

\* maxKeys of the cache, scaled down from the 1000 of globalCache
CacheMaxKeys == 2

\* number of calls made to the CacheManager itself in one behaviour
MaxOps == 3

(***************************************************************************)
(* Generic helpers                                                         *)
(***************************************************************************)
Last(s) == s[Len(s)]

Front(s) == SubSeq(s, 1, Len(s) - 1)

RECURSIVE Flatten(_)
Flatten(ss) == IF ss = <<>> THEN <<>> ELSE Head(ss) \o Flatten(Tail(ss))

\* indices of the token "/" in a path
SlashPositions(p) == {k \in 1..Len(p) : p[k] = "/"}

MaxOf(S) == CHOOSE m \in S : \A k \in S : k <= m

(***************************************************************************)
(* src/utils/gltf-constants.ts                                             *)
(***************************************************************************)
GLB_EXT == ".glb"

GLTF_EXT == ".gltf"

\* variant: the binary alias is ignored
desiredExtFrom_FormatOnly(outputFormat, binary) ==
    IF outputFormat = "glb" THEN GLB_EXT ELSE GLTF_EXT

\* opts.outputFormat is "" when the field is absent
desiredExtFrom(outputFormat, binary) ==
    IF outputFormat = "glb" \/ binary THEN GLB_EXT ELSE GLTF_EXT

\* TEXTURE_ENCODERS
TEXTURE_ENCODERS == {"webp", "jpeg", "png"}

\* the value that stands for the Error normalizeEncoder throws
UnsupportedEncoder == "Unsupported texture encoder"

\* normalizeEncoder: "" stands for undefined; toLowerCase is the identity on
\* the enumerated encoder strings, which are all lower case
normalizeEncoder(input) ==
    IF input = "" THEN ""
    ELSE LET candidate == IF input = "jpg" THEN "jpeg" ELSE input
         IN IF candidate \in TEXTURE_ENCODERS THEN candidate ELSE UnsupportedEncoder

(***************************************************************************)
(* node path module, on token sequences                                    *)
(***************************************************************************)
NoPath == <<>>

\* the tokens that start with a dot
DotTokens == {".glb", ".gltf", ".bin"}

\* the last path segment (tokens after the last "/")
LastSegment(p) ==
    IF SlashPositions(p) = {} THEN p
    ELSE SubSeq(p, MaxOf(SlashPositions(p)) + 1, Len(p))

\* path.extname: from the last dot of the last segment; "" when the segment
\* has no dot or only a leading one
extname(p) ==
    LET seg == LastSegment(p)
    IN IF Len(seg) >= 2 /\ Last(seg) \in DotTokens THEN Last(seg) ELSE ""

\* path.basename(p, ext): the last segment with a trailing ext removed
basename(p, ext) ==
    LET seg == LastSegment(p)
    IN IF ext # "" /\ Len(seg) >= 2 /\ Last(seg) = ext THEN Front(seg) ELSE seg

\* path.dirname: everything before the last "/", "." when there is none
dirname(p) ==
    IF SlashPositions(p) = {} THEN <<".">>
    ELSE SubSeq(p, 1, MaxOf(SlashPositions(p)) - 1)

\* path.join(dir, name) with normalisation of a leading "."
pathJoin(dir, name) ==
    IF dir = <<".">> THEN name ELSE dir \o <<"/">> \o name

\* the template `${baseName}${suffix}${ext}` as a file name
FileName(baseName, suffix, ext) ==
    baseName \o suffix \o (IF ext = "" THEN <<>> ELSE <<ext>>)

\* String(n) for the step numbers that occur
NumStr(n) == <<"0", "1", "2", "3", "4", "5", "6", "7", "8", "9">>[n + 1]

(***************************************************************************)
(* GltfTransformExecOptions                                                *)
(*                                                                         *)
(* A request is a record:                                                  *)
(*   inputPath, outputPath (NoPath when absent), outputFormat ("" absent), *)
(*   binary, flags (the boolean options that are true), merge (a list of   *)
(*   paths, <<>> when absent), resize ("" absent, else the width),         *)
(*   textureCompress ("" absent, "true" for the boolean, else the string), *)
(*   textureFormat, compress, vertexLayout, ratio ("" when absent) and     *)
(*   dracoOptions (a list of <<key, value>> pairs).                        *)
(***************************************************************************)
\* the boolean flags scanned by planExecutionSteps, in the order of the scan
PlannerFlags ==
    {"meshopt", "draco", "quantize", "weld", "simplify", "etc1s", "uastc",
     "webp", "avif", "png", "jpeg", "optimize", "dedup", "prune"}

\* the boolean operation flags that planExecutionSteps does not scan
UnscannedFlags ==
    {"flatten", "join", "center", "instance", "unweld", "dequantize",
     "tangents", "unwrap", "reorder", "metalrough", "palette", "unlit",
     "ktxdecompress", "ktxfix", "resample", "sequence", "sparse",
     "partition", "gzip"}

\* the operation flags that are not plain booleans
StructuredFlags == {"merge", "resize", "textureCompress"}

InspectionFlags == {"inspect", "validate"}

OperationFlags == PlannerFlags \cup UnscannedFlags \cup StructuredFlags

\* JavaScript truthiness of option f of request o
Truthy(o, f) ==
    CASE f = "merge" -> o.merge # <<>>
      [] f = "resize" -> o.resize # ""
      [] f = "textureCompress" -> o.textureCompress # ""
      [] OTHER -> f \in o.flags

\* the operation flags of o that are truthy
TruthyOperations(o) == {f \in OperationFlags : Truthy(o, f)}

(***************************************************************************)
(* GltfTransformExecutor.planExecutionSteps                                *)
(***************************************************************************)
\* `if (options.f) steps.push('f')`
PushIf(o, f) == IF Truthy(o, f) THEN <<f>> ELSE <<>>

\* variant: the scan moves the general optimize step in front of the texture steps
ScannedSteps_OptimizeEarly(o) ==
    PushIf(o, "meshopt") \o PushIf(o, "draco") \o PushIf(o, "quantize")
    \o PushIf(o, "weld") \o PushIf(o, "simplify") \o PushIf(o, "optimize")
    \o PushIf(o, "etc1s") \o PushIf(o, "uastc") \o PushIf(o, "webp")
    \o PushIf(o, "avif") \o PushIf(o, "png") \o PushIf(o, "jpeg")
    \o PushIf(o, "dedup") \o PushIf(o, "prune")

\* the fourteen pushes, in the order of the code
ScannedSteps(o) ==
    PushIf(o, "meshopt") \o PushIf(o, "draco") \o PushIf(o, "quantize")
    \o PushIf(o, "weld") \o PushIf(o, "simplify")
    \o PushIf(o, "etc1s") \o PushIf(o, "uastc") \o PushIf(o, "webp")
    \o PushIf(o, "avif") \o PushIf(o, "png") \o PushIf(o, "jpeg")
    \o PushIf(o, "optimize") \o PushIf(o, "dedup") \o PushIf(o, "prune")

\* variant: no default step
DefaultToCopy_Missing(steps) == steps

\* `if (steps.length === 0) steps.push('copy')`
DefaultToCopy(steps) == IF Len(steps) = 0 THEN <<"copy">> ELSE steps

\* variant: the inspection flags do not end the planning
planExecutionSteps_NoInspection(o) == DefaultToCopy(ScannedSteps(o))

planExecutionSteps(o) ==
    IF Truthy(o, "inspect") THEN <<"inspect">>
    ELSE IF Truthy(o, "validate") THEN <<"validate">>
    ELSE DefaultToCopy(ScannedSteps(o))

(***************************************************************************)
(* GltfTransformExecutor.buildCommand                                      *)
(*                                                                         *)
(* A command is the list `parts` that the code joins with blanks; each     *)
(* part is a sequence of tokens: a word <<"draco">> or a quoted path.      *)
(***************************************************************************)
Word(w) == <<w>>

Quoted(p) == <<"\"">> \o p \o <<"\"">>

\* the legacy textureCompress/textureFormat fallback; toLowerCase is the
\* identity on the enumerated formats, which are all lower case
LegacyTextureCommand(o) ==
    LET fmt == o.textureFormat
    IN IF fmt = "jpeg" \/ fmt = "jpg" THEN "jpeg"
       ELSE IF fmt = "png" THEN "png"
       ELSE IF fmt = "avif" THEN "avif"
       ELSE IF fmt = "etc1s" THEN "etc1s"
       ELSE IF fmt = "uastc" THEN "uastc"
       ELSE "webp"

\* the chain from its third branch on: the single operations, the legacy
\* textureCompress fallback and copy
operationCommand(o) ==
    IF Truthy(o, "draco") THEN "draco"
    ELSE IF Truthy(o, "meshopt") THEN "meshopt"
    ELSE IF Truthy(o, "simplify") THEN "simplify"
    ELSE IF Truthy(o, "weld") THEN "weld"
    ELSE IF Truthy(o, "unweld") THEN "unweld"
    ELSE IF Truthy(o, "quantize") THEN "quantize"
    ELSE IF Truthy(o, "dequantize") THEN "dequantize"
    ELSE IF Truthy(o, "tangents") THEN "tangents"
    ELSE IF Truthy(o, "unwrap") THEN "unwrap"
    ELSE IF Truthy(o, "reorder") THEN "reorder"
    ELSE IF Truthy(o, "center") THEN "center"
    ELSE IF Truthy(o, "instance") THEN "instance"
    ELSE IF Truthy(o, "flatten") THEN "flatten"
    ELSE IF Truthy(o, "join") THEN "join"
    ELSE IF Truthy(o, "metalrough") THEN "metalrough"
    ELSE IF Truthy(o, "palette") THEN "palette"
    ELSE IF Truthy(o, "unlit") THEN "unlit"
    ELSE IF Truthy(o, "resize") THEN "resize"
    ELSE IF Truthy(o, "etc1s") THEN "etc1s"
    ELSE IF Truthy(o, "uastc") THEN "uastc"
    ELSE IF Truthy(o, "ktxdecompress") THEN "ktxdecompress"
    ELSE IF Truthy(o, "ktxfix") THEN "ktxfix"
    ELSE IF Truthy(o, "avif") THEN "avif"
    ELSE IF Truthy(o, "webp") THEN "webp"
    ELSE IF Truthy(o, "png") THEN "png"
    ELSE IF Truthy(o, "jpeg") THEN "jpeg"
    ELSE IF Truthy(o, "resample") THEN "resample"
    ELSE IF Truthy(o, "sequence") THEN "sequence"
    ELSE IF Truthy(o, "sparse") THEN "sparse"
    ELSE IF Truthy(o, "dedup") THEN "dedup"
    ELSE IF Truthy(o, "prune") THEN "prune"
    ELSE IF Truthy(o, "partition") THEN "partition"
    ELSE IF Truthy(o, "gzip") THEN "gzip"
    ELSE IF Truthy(o, "textureCompress") THEN LegacyTextureCommand(o)
    ELSE "copy"

\* variant: the chain tests the merge list before optimize
primaryCommand_MergeFirst(o) ==
    IF Truthy(o, "merge") THEN "merge"
    ELSE IF Truthy(o, "optimize") THEN "optimize"
    ELSE operationCommand(o)

\* the if / else-if chain that selects the primary CLI command
primaryCommand(o) ==
    IF Truthy(o, "optimize") THEN "optimize"
    ELSE IF Truthy(o, "merge") THEN "merge"
    ELSE operationCommand(o)

\* `options.outputPath || path.join(dirName, `${baseName}_transformed${desiredExt}`)`
builderOutputPath(o) ==
    IF o.outputPath # NoPath THEN o.outputPath
    ELSE LET inputExt == extname(o.inputPath)
         IN pathJoin(dirname(o.inputPath),
                     FileName(basename(o.inputPath, inputExt), <<"_transformed">>,
                              desiredExtFrom(o.outputFormat, o.binary)))

\* the flags pushed for the optimize command
OptimizeFlags(o) ==
    (IF o.compress # "" THEN <<Word("--compress"), Word(o.compress)>> ELSE <<>>)
    \o (IF o.textureCompress # ""
        THEN <<Word("--texture-compress"),
               Word(IF o.textureCompress = "true" THEN "webp" ELSE o.textureCompress)>>
        ELSE <<>>)

RECURSIVE DracoFlags(_)
DracoFlags(kvs) ==
    IF kvs = <<>> THEN <<>>
    ELSE <<<<"--", Head(kvs)[1]>>, Word(Head(kvs)[2])>> \o DracoFlags(Tail(kvs))

\* the command-specific and global flags
commandFlags(o, primary) ==
    (IF primary = "optimize" THEN OptimizeFlags(o) ELSE <<>>)
    \o (IF primary = "simplify" /\ o.ratio # ""
        THEN <<Word("--ratio"), Word(o.ratio)>> ELSE <<>>)
    \o (IF primary = "draco" THEN DracoFlags(o.dracoOptions) ELSE <<>>)
    \o (IF primary = "resize" /\ o.resize # ""
        THEN <<Word("--width"), Word(o.resize)>> ELSE <<>>)
    \o (IF o.vertexLayout # ""
        THEN <<Word("--vertex-layout"), Word(o.vertexLayout)>> ELSE <<>>)

RECURSIVE QuoteAll(_)
QuoteAll(ps) == IF ps = <<>> THEN <<>> ELSE <<Quoted(Head(ps))>> \o QuoteAll(Tail(ps))

\* the value thrown for a missing input path
InputRequired == <<Word("throw"), Word("Input path is required.")>>

buildCommand(o) ==
    IF o.inputPath = NoPath THEN InputRequired
    ELSE IF Truthy(o, "inspect")
    THEN <<Word("gltf-transform"), Word("inspect"), Quoted(o.inputPath)>>
    ELSE IF Truthy(o, "validate")
    THEN <<Word("gltf-transform"), Word("validate"), Quoted(o.inputPath)>>
    ELSE LET primary == primaryCommand(o)
             outputPath == builderOutputPath(o)
         IN <<Word("gltf-transform"), Word(primary)>>
            \o (IF primary = "merge"
                THEN <<Quoted(o.inputPath)>> \o QuoteAll(o.merge) \o <<Quoted(outputPath)>>
                ELSE <<Quoted(o.inputPath), Quoted(outputPath)>>)
            \o commandFlags(o, primary)

\* reading a command back: its subcommand and its quoted paths
SubcommandOf(cmd) == cmd[2][1]

IsQuoted(part) == Len(part) >= 2 /\ part[1] = "\"" /\ Last(part) = "\""

Unquote(part) == SubSeq(part, 2, Len(part) - 1)

PathsOf(cmd) == SelectSeq(cmd, IsQuoted)

NotQuoted(part) == ~IsQuoted(part)

FlagsOf(cmd) == SelectSeq(SubSeq(cmd, 3, Len(cmd)), NotQuoted)

InputOf(cmd) == Unquote(PathsOf(cmd)[1])

\* the last quoted path when the command names more than its input
OutputOf(cmd) ==
    IF Len(PathsOf(cmd)) >= 2 THEN Unquote(Last(PathsOf(cmd))) ELSE NoPath

(***************************************************************************)
(* The fatal-keyword test  /error|failed|exception/i.test(stderr)          *)
(***************************************************************************)
UpperCase ==
    {"A", "B", "C", "D", "E", "F", "G", "H", "I", "J", "K", "L", "M", "N",
     "O", "P", "Q", "R", "S", "T", "U", "V", "W", "X", "Y", "Z"}

LowerOf ==
    [c \in UpperCase |->
        CASE c = "A" -> "a" [] c = "B" -> "b" [] c = "C" -> "c" [] c = "D" -> "d"
          [] c = "E" -> "e" [] c = "F" -> "f" [] c = "G" -> "g" [] c = "H" -> "h"
          [] c = "I" -> "i" [] c = "J" -> "j" [] c = "K" -> "k" [] c = "L" -> "l"
          [] c = "M" -> "m" [] c = "N" -> "n" [] c = "O" -> "o" [] c = "P" -> "p"
          [] c = "Q" -> "q" [] c = "R" -> "r" [] c = "S" -> "s" [] c = "T" -> "t"
          [] c = "U" -> "u" [] c = "V" -> "v" [] c = "W" -> "w" [] c = "X" -> "x"
          [] c = "Y" -> "y" [] c = "Z" -> "z"]

\* the `i` flag of the regular expression: letters compare by their lower case
FoldCase(c) == IF c \in UpperCase THEN LowerOf[c] ELSE c

FatalKeywords ==
    { <<"e", "r", "r", "o", "r">>,
      <<"f", "a", "i", "l", "e", "d">>,
      <<"e", "x", "c", "e", "p", "t", "i", "o", "n">> }

\* keyword kw occurs in text at position k
OccursAt(text, kw, k) ==
    /\ k + Len(kw) - 1 <= Len(text)
    /\ \A j \in 1..Len(kw) : FoldCase(text[k + j - 1]) = kw[j]

\* variant: the regular expression without its `i` flag
isFatalStderr_CaseSensitive(stderr) ==
    /\ stderr # <<>>
    /\ \E kw \in FatalKeywords : \E k \in 1..Len(stderr) :
          /\ k + Len(kw) - 1 <= Len(stderr)
          /\ \A j \in 1..Len(kw) : stderr[k + j - 1] = kw[j]

\* `stderr && /error|failed|exception/i.test(stderr)`
isFatalStderr(stderr) ==
    /\ stderr # <<>>
    /\ \E kw \in FatalKeywords : \E k \in 1..Len(stderr) : OccursAt(stderr, kw, k)

(***************************************************************************)
(* Errors thrown by the executor                                           *)
(***************************************************************************)
NoError == [kind |-> "none", step |-> 0, text |-> <<>>]

\* `gltf-transform error: ${stderr}`
StderrError(stderr) == [kind |-> "gltf-transform error", step |-> 0, text |-> stderr]

\* `gltf-transform error in step ${i + 1}: ${stderr}`
StepStderrError(n, stderr) == [kind |-> "gltf-transform error in step", step |-> n, text |-> stderr]

\* the rejection of execAsync for a command that exits non-zero
ExecRejection(stderr) == [kind |-> "Command failed", step |-> 0, text |-> stderr]

(***************************************************************************)
(* Enumerated inputs                                                       *)
(***************************************************************************)
InputPaths == { <<"models", "/", "a", ".glb">> }

ExplicitOutputPaths == { <<"out", "/", "b", ".gltf">> }

MergeInputs == << <<"models", "/", "m", ".glb">> >>

\* the option names from which the executed requests are drawn
SampleFlags ==
    {"meshopt", "draco", "quantize", "webp", "optimize", "prune",
     "flatten", "unweld", "center", "merge", "textureCompress",
     "inspect", "validate"}

\* the request in which exactly the options named in S are set; a detailed
\* request also carries every option that only adds command-line flags
RequestOf(inputPath, outputPath, outputFormat, binary, S, detailed) ==
    [inputPath |-> inputPath,
     outputPath |-> outputPath,
     outputFormat |-> outputFormat,
     binary |-> binary,
     flags |-> S \ StructuredFlags,
     merge |-> IF "merge" \in S THEN MergeInputs ELSE <<>>,
     resize |-> IF "resize" \in S THEN "512" ELSE "",
     textureCompress |-> IF "textureCompress" \in S THEN "true" ELSE "",
     textureFormat |-> IF detailed THEN "jpg" ELSE "",
     compress |-> IF detailed THEN "meshopt" ELSE "",
     vertexLayout |-> IF detailed THEN "interleaved" ELSE "",
     ratio |-> IF detailed THEN "0.5" ELSE "",
     dracoOptions |-> IF detailed THEN << <<"method", "edgebreaker">> >> ELSE <<>>]

\* the combinations <<outputPath given, outputFormat, binary, detailed>>
RequestShapes ==
    { <<FALSE, "", FALSE, FALSE>>,
      <<FALSE, "glb", FALSE, FALSE>>,
      <<FALSE, "gltf", TRUE, FALSE>>,
      <<FALSE, "", TRUE, TRUE>>,
      <<FALSE, "gltf", FALSE, TRUE>>,
      <<TRUE, "", FALSE, FALSE>>,
      <<TRUE, "glb", FALSE, TRUE>>,
      <<TRUE, "", TRUE, FALSE>> }

Requests ==
    {RequestOf(ip, IF sh[1] THEN op ELSE NoPath, sh[2], sh[3], S, sh[4]) :
        ip \in InputPaths,
        op \in ExplicitOutputPaths,
        sh \in RequestShapes,
        S \in {T \in SUBSET SampleFlags : Cardinality(T) <= MaxFlags}}

\* legacy requests that name a texture encoder
EncoderSamples == {"bmp", "jpg", "png"}

EncoderRequests ==
    {[RequestOf(ip, NoPath, "", FALSE, S, FALSE) EXCEPT !.textureFormat = f] :
        ip \in InputPaths,
        f \in EncoderSamples,
        S \in { {"textureCompress"}, {"textureCompress", "optimize"}, {"draco", "webp"} }}

\* what one run of a command can produce: exit status and stderr text
StderrSamples ==
    { <<>>,
      <<"W", "a", "r", "n", "i", "n", "g">>,
      <<"f", "a", "i", "l">>,
      <<"E", "r", "r", "o", "r", ":", " ", "x">>,
      <<"F", "A", "I", "L", "E", "D">>,
      <<"a", "n", " ", "e", "x", "c", "e", "p", "t", "i", "o", "n">> }

ExecOutcomes ==
    [exit : {0}, stderr : StderrSamples]
    \cup [exit : {1}, stderr : { <<"f", "a", "i", "l">> }]

NoExec == [exit |-> -1, stderr |-> <<>>]

(***************************************************************************)
(* JavaScript objects whose key order matters: lists of <<field, value>>,  *)
(* every value a sequence of tokens                                        *)
(***************************************************************************)
Undefined == <<>>

JsTrue == <<"true">>

HasField(obj, f) == \E k \in 1..Len(obj) : obj[k][1] = f

FieldIndex(obj, f) == CHOOSE k \in 1..Len(obj) : obj[k][1] = f

\* obj.f
Get(obj, f) == IF HasField(obj, f) THEN obj[FieldIndex(obj, f)][2] ELSE Undefined

\* obj.f = v: an existing key keeps its place, a new key goes last
Put(obj, f, v) ==
    IF HasField(obj, f)
    THEN [k \in 1..Len(obj) |-> IF obj[k][1] = f THEN <<f, v>> ELSE obj[k]]
    ELSE Append(obj, <<f, v>>)

IsTruthy(v) == v # Undefined /\ v # <<"false">>

IsDefined(e) == e[2] # Undefined

\* JSON.stringify: the own keys in insertion order, undefined values left out
jsonStringify(obj) == SelectSeq(obj, IsDefined)

(***************************************************************************)
(* CacheManager (utils/cache.ts) over node-cache                           *)
(***************************************************************************)
\* the first 16 hex digits of sha256 are taken to be free of collisions: the
\* key stands for the prefix and the serialised data
generateKey(prefix, data) == <<prefix, jsonStringify(data)>>

EmptyStore == [k \in {} |-> [v |-> <<>>, t |-> 0]]

\* an entry whose expiry instant lies before the clock is dead
IsLive(store, key, clock) ==
    /\ key \in DOMAIN store
    /\ store[key].t = 0 \/ store[key].t >= clock

\* the value CacheManager.get returns, <<>> standing for null
cacheGet(store, key, clock) == IF IsLive(store, key, clock) THEN store[key].v ELSE <<>>

\* the store after a get: a dead entry is deleted when it is looked up
storeAfterGet(store, key, clock) ==
    IF key \in DOMAIN store /\ ~IsLive(store, key, clock)
    THEN [k \in DOMAIN store \ {key} |-> store[k]]
    ELSE store

\* node-cache refuses a set once maxKeys entries are stored
cacheIsFull(store) == Cardinality(DOMAIN store) >= CacheMaxKeys

\* the store after CacheManager.set(key, value, ttl); ttl 0 keeps the entry for ever
storeAfterSet(store, key, value, ttl, clock) ==
    [k \in DOMAIN store \cup {key} |->
        IF k = key THEN [v |-> value, t |-> IF ttl = 0 THEN 0 ELSE clock + ttl]
        ELSE store[k]]

\* the ttl GltfProcessor.process passes to set: 3600 seconds, one unit of time
ProcessTTL == 1

(***************************************************************************)
(* Calls to the cached operations                                          *)
(***************************************************************************)
CallIds == 1..MaxCalls

\* the data part of a result envelope
NoData ==
    [inputPath |-> NoPath, outputPath |-> NoPath, format |-> "",
     command |-> <<>>, outputSize |-> 0]

NoEnvelope == [success |-> FALSE, data |-> NoData, error |-> [kind |-> "none", step |-> 0, text |-> <<>>]]

NoCall ==
    [pc |-> "idle", op |-> "none", request |-> <<>>, params |-> <<>>, key |-> <<"", <<>>>>,
     invoked |-> FALSE, envelope |-> NoEnvelope,
     after |-> {}, endTime |-> 0]

\* no call has been made to the CacheManager yet
NoOp == [op |-> "none", data |-> <<>>, key |-> <<"", <<>>>>, result |-> <<>>, at |-> 0, n |-> 0]

\* no set has been made: key -> [data: the object the key was generated from,
\* v: value, at: instant of the set, ttl: its ttl]
NoSets == [k \in {} |-> [data |-> <<>>, v |-> <<>>, at |-> 0, ttl |-> 0]]

\* the model file on disk, with the first of two contents
InitialDisk == [p \in { <<"models", "/", "m", ".glb">> } |-> <<"c1">>]

\* the two requests that run side by side
RunIds == {1, 2}

\* a run that has not started; met: what it did to files of the other run
NoRun ==
    [pc |-> "idle", options |-> <<>>, steps |-> <<>>, i |-> 0, currentInput |-> NoPath,
     met |-> {}]

(***************************************************************************)
(* State                                                                   *)
(***************************************************************************)
VARIABLES
    pc,            \* "idle", "single", "multi", "done", "failed", "rejected"
    entry,         \* the caller: "tool" (gltfTransformExecutorTool) or "mcp"
    request,       \* the options as the caller received them
    options,       \* the options passed to GltfTransformExecutor.execute
    steps,         \* the plan
    i,             \* loop index of executeMultiStep
    currentInput,  \* executeMultiStep's currentInput
    stepLog,       \* the StepOptions built so far, one per started step
    executed,      \* the commands handed to execAsync (rm excluded)
    commands,      \* executeMultiStep's commands list
    lastExec,      \* outcome of the last command run
    error,         \* the error thrown by execute, NoError when none
    result,        \* the value returned by execute
    files,         \* the files written by this run that exist
    cacheStore,    \* globalCache: key -> [v: value, t: expiry instant, 0 for none]
    hitCount,      \* CacheManager.hitCount
    missCount,     \* CacheManager.missCount
    now,           \* the clock
    calls,         \* the calls made to GltfProcessor.process and to the tool
    lastOp,        \* the last call made to the CacheManager itself, with its result
    latest,        \* per key, the last set(key, value) not followed by del or flush
    kept,          \* per key, the last such set that node-cache accepted
    disk,          \* the files that exist: path -> content
    runs,          \* the runs of executeMultiStep going on side by side
    rmLog          \* the rm commands issued by this run, in order

execVars == <<pc, entry, request, options, steps, i, currentInput, stepLog,
              executed, commands, lastExec, error, result, files, rmLog>>

cacheVars == <<cacheStore, hitCount, missCount, now, calls>>

clientVars == <<lastOp, latest, kept, disk, runs>>

vars == <<pc, entry, request, options, steps, i, currentInput, stepLog,
          executed, commands, lastExec, error, result, files,
          cacheStore, hitCount, missCount, now, calls,
          lastOp, latest, kept, disk, runs, rmLog>>

NoRequest == RequestOf(NoPath, NoPath, "", FALSE, {}, FALSE)

Init ==
    /\ pc = "idle"
    /\ entry = "none"
    /\ request = NoRequest
    /\ options = NoRequest
    /\ steps = <<>>
    /\ i = 0
    /\ currentInput = NoPath
    /\ stepLog = <<>>
    /\ executed = <<>>
    /\ commands = <<>>
    /\ lastExec = NoExec
    /\ error = NoError
    /\ result = <<>>
    /\ files = {}
    /\ cacheStore = EmptyStore
    /\ hitCount = 0
    /\ missCount = 0
    /\ now = 0
    /\ calls = [c \in CallIds |-> NoCall]
    /\ lastOp = NoOp
    /\ latest = NoSets
    /\ kept = NoSets
    /\ disk = InitialDisk
    /\ runs = [r \in RunIds |-> NoRun]
    /\ rmLog = <<>>

(***************************************************************************)
(* gltfTransformExecutorTool.execute: the output path it fills in          *)
(***************************************************************************)
toolResolveOutput(params) ==
    IF params.outputPath # NoPath THEN params
    ELSE LET inputExt == extname(params.inputPath)
             baseName == basename(params.inputPath, inputExt)
             dirName == dirname(params.inputPath)
             desiredExt == desiredExtFrom(params.outputFormat, params.binary)
         IN [params EXCEPT !.outputPath =
                pathJoin(dirName, FileName(baseName, <<"_transformed">>, desiredExt))]

(***************************************************************************)
(* GltfTransformExecutor.execute, up to its first await                    *)
(***************************************************************************)
Execute(e, req) ==
    /\ pc = "idle"
    /\ entry' = e
    /\ request' = req
    /\ options' = IF e = "tool" THEN toolResolveOutput(req) ELSE req
    /\ steps' = planExecutionSteps(options')
    /\ pc' = IF Len(steps') = 1 THEN "single" ELSE "multi"
    /\ i' = 0
    /\ currentInput' = options'.inputPath
    /\ UNCHANGED <<stepLog, executed, commands, lastExec, error, result, files, rmLog>>
    /\ UNCHANGED cacheVars
    /\ UNCHANGED clientVars

\* the files a command writes when it exits with status 0
Written(cmd) == IF OutputOf(cmd) = NoPath THEN {} ELSE {OutputOf(cmd)}

(***************************************************************************)
(* execute, single step: buildCommand, execAsync, stderr check             *)
(***************************************************************************)
SingleStep(out) ==
    /\ pc = "single"
    /\ LET command == buildCommand(options)
       IN /\ executed' = Append(executed, command)
          /\ lastExec' = out
          /\ IF out.exit # 0
             THEN /\ pc' = "failed"
                  /\ error' = ExecRejection(out.stderr)
                  /\ UNCHANGED <<result, files>>
             ELSE IF isFatalStderr(out.stderr)
             THEN /\ pc' = "failed"
                  /\ error' = StderrError(out.stderr)
                  /\ files' = files \cup Written(command)
                  /\ UNCHANGED result
             ELSE /\ pc' = "done"
                  /\ result' = command
                  /\ files' = files \cup Written(command)
                  /\ UNCHANGED error
    /\ UNCHANGED <<entry, request, options, steps, i, currentInput, stepLog, commands,
                   rmLog>>
    /\ UNCHANGED cacheVars
    /\ UNCHANGED clientVars

(***************************************************************************)
(* executeMultiStep: one iteration of the loop                             *)
(***************************************************************************)
\* variant: the intermediate files are put next to the output of the request
intermediateFile_NextToOutput(o, n, step) ==
    LET inputExt == extname(o.inputPath)
    IN pathJoin(dirname(IF o.outputPath # NoPath THEN o.outputPath ELSE o.inputPath),
                FileName(basename(o.inputPath, inputExt),
                         <<"_step", NumStr(n), "_", step>>, inputExt))

\* `${baseName}_step${n}_${step}${inputExt}` next to the input
intermediateFile(o, n, step) ==
    LET inputExt == extname(o.inputPath)
    IN pathJoin(dirname(o.inputPath),
                FileName(basename(o.inputPath, inputExt),
                         <<"_step", NumStr(n), "_", step>>, inputExt))

\* the final output of a multi-step run
multiStepFinalOutput(o) ==
    IF o.outputPath # NoPath THEN o.outputPath
    ELSE LET inputExt == extname(o.inputPath)
         IN pathJoin(dirname(o.inputPath),
                     FileName(basename(o.inputPath, inputExt), <<"_processed">>,
                              desiredExtFrom(o.outputFormat, o.binary)))

\* stepOutput for loop index k (0-based)
stepOutputOf(o, plan, k) ==
    IF k = Len(plan) - 1 THEN multiStepFinalOutput(o)
    ELSE intermediateFile(o, k + 1, plan[k + 1])

\* variant: every step reads the original input instead of currentInput
stepOptionsOf_OriginalInput(o, input, output, step) ==
    [o EXCEPT !.outputPath = output,
              !.flags = (@ \ PlannerFlags) \cup ({step} \cap PlannerFlags)]

\* the options object built for one step
stepOptionsOf(o, input, output, step) ==
    [o EXCEPT !.inputPath = input,
              !.outputPath = output,
              !.flags = (@ \ PlannerFlags) \cup ({step} \cap PlannerFlags)]

\* commands.join(' && ')
RECURSIVE joinCommands(_)
joinCommands(cmds) ==
    IF cmds = <<>> THEN <<>>
    ELSE IF Len(cmds) = 1 THEN Head(cmds)
    ELSE Head(cmds) \o <<Word("&&")>> \o joinCommands(Tail(cmds))

\* variant: no clean-up
cleanupTarget_Never(o, plan, k) == {}

\* variant: the clean-up removes the file the step has just written
cleanupTarget_StepOutput(o, plan, k) ==
    IF k # Len(plan) - 1 /\ k > 0 /\ intermediateFile(o, k + 1, plan[k + 1]) # o.inputPath
    THEN {intermediateFile(o, k + 1, plan[k + 1])}
    ELSE {}

\* the file removed by the clean-up of loop index k, if any
cleanupTarget(o, plan, k) ==
    IF k # Len(plan) - 1 /\ k > 0 /\ intermediateFile(o, k, plan[k]) # o.inputPath
    THEN {intermediateFile(o, k, plan[k])}
    ELSE {}

\* variant: a failed rm ends the run
cleanupCatch_Escalates(ok, next) == IF ok THEN next ELSE "failed"

\* `catch (error) { logger.warn(...) }` around the rm: the loop goes on
cleanupCatch(ok, next) == next

\* the rm issued for the clean-up target: its path, whether it succeeded and
\* the number of step commands completed before it
rmIssued(target, ok, done) ==
    IF target = {} THEN <<>>
    ELSE << [path |-> CHOOSE t \in target : TRUE, ok |-> ok, after |-> done] >>

MultiStep(out, rmOk) ==
    /\ pc = "multi"
    /\ i < Len(steps)
    /\ LET step == steps[i + 1]
           isLastStep == i = Len(steps) - 1
           stepOutput == stepOutputOf(options, steps, i)
           stepOptions == stepOptionsOf(options, currentInput, stepOutput, step)
           command == buildCommand(stepOptions)
           target == cleanupTarget(options, steps, i)
       IN /\ stepLog' = Append(stepLog, stepOptions)
          /\ executed' = Append(executed, command)
          /\ lastExec' = out
          /\ IF out.exit # 0
             THEN /\ rmOk
                  /\ pc' = "failed"
                  /\ error' = ExecRejection(out.stderr)
                  /\ UNCHANGED <<i, currentInput, commands, result, files, rmLog>>
             ELSE IF isFatalStderr(out.stderr)
             THEN /\ rmOk
                  /\ pc' = "failed"
                  /\ error' = StepStderrError(i + 1, out.stderr)
                  /\ files' = files \cup Written(command)
                  /\ UNCHANGED <<i, currentInput, commands, result, rmLog>>
             ELSE /\ target = {} => rmOk
                  /\ commands' = Append(commands, command)
                  /\ currentInput' = stepOutput
                  /\ files' = (files \cup Written(command))
                                 \ (IF rmOk THEN target ELSE {})
                  /\ rmLog' = rmLog \o rmIssued(target, rmOk, Len(commands'))
                  /\ i' = i + 1
                  /\ pc' = cleanupCatch(rmOk, IF isLastStep THEN "done" ELSE "multi")
                  /\ result' = IF isLastStep THEN joinCommands(commands') ELSE result
                  /\ UNCHANGED error
    /\ UNCHANGED <<entry, request, options, steps>>
    /\ UNCHANGED cacheVars
    /\ UNCHANGED clientVars

(***************************************************************************)
(* The envelopes of the callers of execute                                 *)
(***************************************************************************)
\* `Input file not found: ${args.inputPath}`
InputNotFound == [kind |-> "Input file not found", step |-> 0, text |-> <<>>]

\* the keys of the metrics object of the transform tool's envelopes
ToolMetrics == {"processingTime", "memoryUsage"}

\* gltfTransformExecutorTool.execute: the envelope of its try and of its catch
toolEnvelope(ok, o, command, err) ==
    IF ok
    THEN [success |-> TRUE, inputPath |-> o.inputPath, outputPath |-> o.outputPath,
          command |-> command, error |-> NoError, metrics |-> ToolMetrics]
    ELSE [success |-> FALSE, inputPath |-> NoPath, outputPath |-> NoPath,
          command |-> <<>>, error |-> err, metrics |-> ToolMetrics]

\* the process tool of gltfTransformMcp: its envelopes have no metrics object
mcpEnvelope(ok, o, command, err) ==
    IF ok
    THEN [success |-> TRUE, inputPath |-> o.inputPath, outputPath |-> o.outputPath,
          command |-> command, error |-> NoError, metrics |-> {}]
    ELSE [success |-> FALSE, inputPath |-> NoPath, outputPath |-> NoPath,
          command |-> <<>>, error |-> err, metrics |-> {}]

\* the envelope the caller returns once its run is over
returnedEnvelope ==
    IF entry = "tool" THEN toolEnvelope(pc = "done", options, result, error)
    ELSE mcpEnvelope(pc = "done", options, result, error)

\* the process tool of gltfTransformMcp finds no file at inputPath and
\* returns without calling execute
McpInputMissing ==
    /\ pc = "idle"
    /\ pc' = "rejected"
    /\ entry' = "mcp"
    /\ error' = InputNotFound
    /\ UNCHANGED <<request, options, steps, i, currentInput, stepLog, executed,
                   commands, lastExec, result, files, rmLog>>
    /\ UNCHANGED cacheVars
    /\ UNCHANGED clientVars

\* a caller hands one of the enumerated requests to the executor
Submit ==
    /\ pc = "idle"
    /\ \E e \in {"tool", "mcp"} : \E req \in Requests \cup EncoderRequests : Execute(e, req)

Next ==
    \/ Submit
    \/ McpInputMissing
    \/ \E out \in ExecOutcomes : SingleStep(out)
    \/ \E out \in ExecOutcomes : \E rmOk \in BOOLEAN : MultiStep(out, rmOk)

Spec == Init /\ [][Next]_vars

(***************************************************************************)
(* The planner and the output-path resolution over all flag combinations   *)
(***************************************************************************)
SweepInputPaths ==
    { <<"models", "/", "a", ".glb">>, <<"a", ".gltf">>, <<"models", "/", "raw">> }

SweepOutputPaths ==
    { NoPath, <<"out", "/", "b", ".gltf">>, <<"out", "/", "b", ".glb">>, <<"out", "/", "b">> }

\* every combination of the scanned flags, alone or next to one other option
PlannerSweep ==
    {RequestOf(<<"models", "/", "a", ".glb">>, NoPath, "", FALSE, P \cup Q, FALSE) :
        P \in SUBSET PlannerFlags,
        Q \in { {}, {"inspect"}, {"validate"}, {"flatten"} }}

\* every combination of paths, outputFormat and binary
FormatSweep ==
    {RequestOf(ip, op, fmt, bin, S, FALSE) :
        ip \in SweepInputPaths,
        op \in SweepOutputPaths,
        fmt \in {"", "glb", "gltf"},
        bin \in BOOLEAN,
        S \in { {}, {"draco"}, {"draco", "webp"}, {"inspect"}, {"merge"} }}

SubmitSweep ==
    /\ pc = "idle"
    /\ \E e \in {"tool", "mcp"} : \E req \in PlannerSweep \cup FormatSweep : Execute(e, req)

NextPlan == SubmitSweep

SpecPlan == Init /\ [][NextPlan]_vars

(***************************************************************************)
(* GltfPipelineExecutor                                                    *)
(***************************************************************************)
\* `if (options.f) commands.push(flag)`
PipelineFlagIf(o, f, flag) == IF IsTruthy(Get(o, f)) THEN <<Word(flag)>> ELSE <<>>

\* `--draco.key value` for the keys of dracoOptions that are defined
PipelineDracoOption(d, f) ==
    IF Get(d, f) # Undefined THEN << <<"--draco.", f>> \o Get(d, f) >> ELSE <<>>

PipelineDracoFlags(o) ==
    IF ~IsTruthy(Get(o, "draco")) THEN <<>>
    ELSE <<Word("-d")>>
         \o (LET d == Get(o, "dracoOptions")
             IN PipelineDracoOption(d, "compressionLevel")
                \o PipelineDracoOption(d, "quantizePositionBits")
                \o PipelineDracoOption(d, "quantizeNormalBits")
                \o PipelineDracoOption(d, "quantizeTexcoordBits")
                \o PipelineDracoOption(d, "quantizeColorBits")
                \o PipelineDracoOption(d, "quantizeGenericBits")
                \o (IF IsTruthy(Get(d, "unifiedQuantization"))
                    THEN <<Word("--draco.unifiedQuantization")>> ELSE <<>>)
                \o (IF IsTruthy(Get(d, "uncompressedFallback"))
                    THEN <<Word("--draco.uncompressedFallback")>> ELSE <<>>))

PathsRequired == <<Word("throw"), Word("Input and output paths are required.")>>

pipelineBuildCommand(o) ==
    IF ~IsTruthy(Get(o, "inputPath")) \/ ~IsTruthy(Get(o, "outputPath")) THEN PathsRequired
    ELSE <<Word("gltf-pipeline"),
           <<"-i">> \o Quoted(Get(o, "inputPath")),
           <<"-o">> \o Quoted(Get(o, "outputPath"))>>
         \o (IF Get(o, "outputFormat") = <<"glb">> THEN <<Word("-b")>>
             ELSE IF Get(o, "outputFormat") = <<"gltf">> THEN <<Word("-j")>>
             ELSE <<>>)
         \o PipelineFlagIf(o, "separate", "-s")
         \o PipelineFlagIf(o, "separateTextures", "-t")
         \o PipelineFlagIf(o, "stats", "--stats")
         \o PipelineFlagIf(o, "keepUnusedElements", "--keepUnusedElements")
         \o PipelineFlagIf(o, "keepLegacyExtensions", "--keepLegacyExtensions")
         \o PipelineDracoFlags(o)

\* `stderr && /error/i.test(stderr)`
isPipelineFatal(stderr) ==
    /\ stderr # <<>>
    /\ \E k \in 1..Len(stderr) : OccursAt(stderr, <<"e", "r", "r", "o", "r">>, k)

\* `gltf-pipeline error: ${stderr}`
PipelineError(stderr) == [kind |-> "gltf-pipeline error", step |-> 0, text |-> stderr]

(***************************************************************************)
(* GltfProcessor.process                                                   *)
(***************************************************************************)
FormatOf(o) ==
    IF Get(o, "outputFormat") = <<"glb">> THEN "glb"
    ELSE IF Get(o, "outputFormat") = <<"gltf">> THEN "gltf" ELSE ""

\* the legacy outputFormat mapped onto binary / json
mapLegacyFormat(o) ==
    IF Get(o, "outputFormat") = <<"glb">> THEN Put(o, "binary", JsTrue)
    ELSE IF Get(o, "outputFormat") = <<"gltf">> THEN Put(o, "json", JsTrue)
    ELSE o

\* the output path generated when none is given
processOutputPath(o) ==
    LET inputPath == Get(o, "inputPath")
        inputExt == extname(inputPath)
        outputExt == desiredExtFrom(FormatOf(o), IsTruthy(Get(o, "binary")))
    IN pathJoin(dirname(inputPath),
                FileName(basename(inputPath, inputExt), <<"_processed">>, outputExt))

\* the options as process uses them, before the cache is consulted
normalizeProcessOptions(params) ==
    LET o == mapLegacyFormat(params)
    IN IF IsTruthy(Get(o, "outputPath")) THEN o
       ELSE Put(o, "outputPath", processOutputPath(o))

processCacheKey(o) == generateKey("gltf-process", o)

\* variant: the lookup never finds an entry
processCacheHit_Never(store, key, clock) == FALSE

\* `const cached = globalCache.get(cacheKey); if (cached)`
processCacheHit(store, key, clock) == IsLive(store, key, clock)

\* statSync throws for a missing file
StatError == [kind |-> "ENOENT", step |-> 0, text |-> <<>>]

\* node-cache throws when the store is full
CacheFullError == [kind |-> "ECACHEFULL", step |-> 0, text |-> <<>>]

\* path.extname(undefined) throws a TypeError
PathTypeError == [kind |-> "ERR_INVALID_ARG_TYPE", step |-> 0, text |-> <<>>]

\* `throw new Error('Input path is required.')`
InputRequiredError == [kind |-> "Input path is required.", step |-> 0, text |-> <<>>]

\* `throw new Error('Input and output paths are required.')`
PathsRequiredError ==
    [kind |-> "Input and output paths are required.", step |-> 0, text |-> <<>>]

Returned(call, env, clock) ==
    [call EXCEPT !.pc = "returned", !.envelope = env, !.endTime = clock]

\* the calls that have returned
ReturnedCalls == {d \in CallIds : calls[d].pc = "returned"}

Failure(err) == [success |-> FALSE, data |-> NoData, error |-> err]

Success(data) == [success |-> TRUE, data |-> data, error |-> NoError]

\* an exception that leaves the operation instead of an envelope
Thrown(call, err, clock) ==
    [call EXCEPT !.pc = "threw", !.envelope = Failure(err), !.endTime = clock]

\* variant: the catch block of process lets the error through
processCatch_Rethrow(call, err, clock) == Thrown(call, err, clock)

\* the catch block of process: the error becomes a failure envelope
processCatch(call, err, clock) == Returned(call, Failure(err), clock)

\* the catch block of the transform tool
toolCatch(call, err, clock) == Returned(call, Failure(err), clock)

\* the return of an operation whose body ended with the envelope env or threw
\* the error it carries
processReturn(call, env, clock) ==
    IF env.success THEN Returned(call, env, clock) ELSE processCatch(call, env.error, clock)

toolReturn(call, env, clock) ==
    IF env.success THEN Returned(call, env, clock) ELSE toolCatch(call, env.error, clock)

\* call ids are used in order
MayStart(c) ==
    /\ calls[c].pc = "idle"
    /\ IF c = 1 THEN TRUE ELSE calls[c - 1].pc # "idle"

\* process up to `await this.executor.execute(options)`, or to its return on a hit
ProcessStart(c, params) ==
    /\ MayStart(c)
    /\ IF ~IsTruthy(Get(params, "outputPath")) /\ Get(params, "inputPath") = Undefined
       THEN \* path.extname(options.inputPath) throws before the cache is consulted
            /\ calls' = [calls EXCEPT ![c] =
                  processCatch([calls[c] EXCEPT !.op = "process", !.request = params,
                                                !.params = mapLegacyFormat(params),
                                                !.after = ReturnedCalls],
                               PathTypeError, now)]
            /\ UNCHANGED <<cacheStore, hitCount, missCount>>
       ELSE LET o == normalizeProcessOptions(params)
                key == processCacheKey(o)
                started == [calls[c] EXCEPT !.op = "process", !.request = params,
                                            !.params = o, !.key = key,
                                            !.after = ReturnedCalls]
            IN /\ cacheStore' = storeAfterGet(cacheStore, key, now)
               /\ IF processCacheHit(cacheStore, key, now)
                  THEN /\ hitCount' = hitCount + 1
                       /\ UNCHANGED missCount
                       /\ calls' = [calls EXCEPT ![c] =
                             Returned(started, Success(cacheGet(cacheStore, key, now)), now)]
                  ELSE /\ missCount' = missCount + 1
                       /\ UNCHANGED hitCount
                       /\ calls' = [calls EXCEPT ![c] =
                             [started EXCEPT !.pc = "awaiting", !.invoked = TRUE]]
    /\ UNCHANGED now
    /\ UNCHANGED execVars
    /\ UNCHANGED clientVars

\* process from the return of the executor to its own return
ProcessFinish(c, out, size) ==
    /\ calls[c].pc = "awaiting"
    /\ calls[c].op = "process"
    /\ LET o == calls[c].params
           command == pipelineBuildCommand(o)
           data == [inputPath |-> Get(o, "inputPath"),
                    outputPath |-> Get(o, "outputPath"),
                    format |-> IF IsTruthy(Get(o, "binary")) THEN "glb" ELSE "gltf",
                    command |-> command,
                    outputSize |-> size]
           outcome ==
               IF command = PathsRequired THEN Failure(PathsRequiredError)
               ELSE IF out.exit # 0 THEN Failure(ExecRejection(out.stderr))
               ELSE IF isPipelineFatal(out.stderr) THEN Failure(PipelineError(out.stderr))
               ELSE IF size = 0 THEN Failure(StatError)
               ELSE IF cacheIsFull(cacheStore) THEN Failure(CacheFullError)
               ELSE Success(data)
       IN /\ (outcome.success \/ outcome.error = StatError \/ outcome.error = CacheFullError)
             \/ size = 1
          /\ cacheStore' = IF outcome.success
                           THEN storeAfterSet(cacheStore, calls[c].key, data, ProcessTTL, now)
                           ELSE cacheStore
          /\ calls' = [calls EXCEPT ![c] = processReturn(calls[c], outcome, now)]
    /\ UNCHANGED <<hitCount, missCount, now>>
    /\ UNCHANGED execVars
    /\ UNCHANGED clientVars

(***************************************************************************)
(* gltfTransformExecutorTool.execute as one call: the run of its steps is  *)
(* summed up by the outcome of the last command run                        *)
(***************************************************************************)
\* the command of loop index k of a run in which every earlier step succeeded
stepCommandAt(o, plan, k) ==
    buildCommand(stepOptionsOf(o,
                               IF k = 0 THEN o.inputPath ELSE stepOutputOf(o, plan, k - 1),
                               stepOutputOf(o, plan, k),
                               plan[k + 1]))

\* the value execute returns when every command succeeds
executeResult(o) ==
    LET plan == planExecutionSteps(o)
    IN IF Len(plan) = 1 THEN buildCommand(o)
       ELSE joinCommands([k \in 1..Len(plan) |-> stepCommandAt(o, plan, k - 1)])

ToolStart(c, req) ==
    /\ MayStart(c)
    /\ calls' = [calls EXCEPT ![c] =
          [@ EXCEPT !.pc = "awaiting", !.op = "transform", !.request = req,
                    !.params = IF req.inputPath = NoPath THEN req
                               ELSE toolResolveOutput(req),
                    !.key = <<"", <<>>>>, !.invoked = TRUE,
                    !.after = ReturnedCalls]]
    /\ UNCHANGED <<cacheStore, hitCount, missCount, now>>
    /\ UNCHANGED execVars
    /\ UNCHANGED clientVars

ToolFinish(c, out) ==
    /\ calls[c].pc = "awaiting"
    /\ calls[c].op = "transform"
    /\ LET o == calls[c].params
           outcome ==
               IF o.inputPath = NoPath /\ o.outputPath = NoPath THEN Failure(PathTypeError)
               ELSE IF o.inputPath = NoPath THEN Failure(InputRequiredError)
               ELSE IF out.exit # 0 THEN Failure(ExecRejection(out.stderr))
               ELSE IF isFatalStderr(out.stderr) THEN Failure(StderrError(out.stderr))
               ELSE Success([inputPath |-> o.inputPath, outputPath |-> o.outputPath,
                             format |-> "", command |-> executeResult(o), outputSize |-> 0])
       IN calls' = [calls EXCEPT ![c] = toolReturn(calls[c], outcome, now)]
    /\ UNCHANGED <<cacheStore, hitCount, missCount, now>>
    /\ UNCHANGED execVars
    /\ UNCHANGED clientVars

\* time passes
Tick ==
    /\ now < MaxTime
    /\ now' = now + 1
    /\ UNCHANGED <<cacheStore, hitCount, missCount, calls>>
    /\ UNCHANGED execVars
    /\ UNCHANGED clientVars

\* the options objects handed to process
ModelPath == <<"models", "/", "m", ".glb">>

ProcessParams ==
    { << <<"optimize", JsTrue>> >>,
      << <<"inputPath", ModelPath>>, <<"optimize", JsTrue>> >>,
      << <<"inputPath", ModelPath>>, <<"outputFormat", <<"glb">>>>, <<"draco", JsTrue>>,
         <<"dracoOptions", << <<"compressionLevel", <<"7">>>> >> >> >> }

\* the requests handed to the transform tool
ToolParams ==
    { RequestOf(NoPath, NoPath, "", FALSE, {"draco"}, FALSE),
      RequestOf(ModelPath, NoPath, "glb", FALSE, {"draco", "webp"}, FALSE) }

\* outcomes of the command run for a cached operation
CallOutcomes ==
    { [exit |-> 0, stderr |-> <<>>],
      [exit |-> 0, stderr |-> <<"E", "r", "r", "o", "r", ":", " ", "x">>],
      [exit |-> 1, stderr |-> <<"f", "a", "i", "l">>] }

\* size of the output file as statSync reports it; 0 stands for a missing file
OutputSizes == {0, 1, 2}

\* entries left in the cache by the analysis and validation tools
ForeignStore(n) ==
    [k \in {<<"analysis", << <<"file", <<NumStr(j)>>>> >> >> : j \in 1..n} |->
        [v |-> NoData, t |-> ProcessTTL]]

InitCache ==
    /\ Init!1 /\ Init!2 /\ Init!3 /\ Init!4 /\ Init!5 /\ Init!6 /\ Init!7
    /\ Init!8 /\ Init!9 /\ Init!10 /\ Init!11 /\ Init!12 /\ Init!13 /\ Init!14
    /\ cacheStore \in {ForeignStore(n) : n \in {0, CacheMaxKeys - 1}}
    /\ hitCount = 0
    /\ missCount = 0
    /\ now = 0
    /\ calls = [c \in CallIds |-> NoCall]
    /\ Init!20 /\ Init!21 /\ Init!22 /\ Init!23 /\ Init!24 /\ Init!25

NextCache ==
    \/ \E c \in CallIds : \E params \in ProcessParams : ProcessStart(c, params)
    \/ \E c \in CallIds : \E out \in CallOutcomes : \E size \in OutputSizes :
          ProcessFinish(c, out, size)
    \/ \E c \in CallIds : \E req \in ToolParams : ToolStart(c, req)
    \/ \E c \in CallIds : \E out \in CallOutcomes : ToolFinish(c, out)
    \/ Tick

SpecCache == InitCache /\ [][NextCache]_vars

(***************************************************************************)
(* The CacheManager called directly: set, get, del, has, flush              *)
(***************************************************************************)
\* the objects the keys are generated from: the second has the fields of the
\* first, inserted in the other order
StoreObjects ==
    { << <<"id", <<"123">>>>, <<"name", <<"test-data">>>> >>,
      << <<"name", <<"test-data">>>>, <<"id", <<"123">>>> >>,
      << <<"id", <<"7">>>> >> }

StoreValues == { <<"test-value">>, <<"other-value">> }

\* the ttl argument of set: left out, or 3600 seconds
StoreTTLs == { Undefined, <<"1">> }

\* `stdTTL: options.stdTTL || 3600`: the default ttl of the manager, 3600 seconds
stdTTL == 1

\* `ttl || 0`
ttlOrZero(ttl) == IF ttl = Undefined THEN 0 ELSE ProcessTTL

SetRecord(data, value, ttl, clock) ==
    [data |-> data, v |-> value, at |-> clock, ttl |-> ttl]

Without(f, key) == [k \in DOMAIN f \ {key} |-> f[k]]

With(f, key, e) == [k \in DOMAIN f \cup {key} |-> IF k = key THEN e ELSE f[k]]

OpRecord(op, data, res) ==
    [op |-> op, data |-> data, key |-> generateKey("test", data), result |-> res,
     at |-> now, n |-> lastOp.n + 1]

\* CacheManager.set: node-cache throws ECACHEFULL once maxKeys keys are stored
CacheSet(data, value, ttl) ==
    LET key == generateKey("test", data)
        accepted == ~cacheIsFull(cacheStore)
    IN /\ lastOp.n < MaxOps
       /\ cacheStore' = IF accepted
                        THEN storeAfterSet(cacheStore, key, value, ttlOrZero(ttl), now)
                        ELSE cacheStore
       /\ lastOp' = OpRecord("set", data, IF accepted THEN <<"true">> ELSE <<"ECACHEFULL">>)
       /\ latest' = With(latest, key, SetRecord(data, value, ttlOrZero(ttl), now))
       /\ kept' = IF accepted THEN With(kept, key, SetRecord(data, value, ttlOrZero(ttl), now))
                  ELSE kept
       /\ UNCHANGED <<hitCount, missCount, now, calls, disk, runs>>
       /\ UNCHANGED execVars

\* CacheManager.get
CacheGet(data) ==
    LET key == generateKey("test", data)
        value == cacheGet(cacheStore, key, now)
    IN /\ lastOp.n < MaxOps
       /\ cacheStore' = storeAfterGet(cacheStore, key, now)
       /\ hitCount' = IF value # <<>> THEN hitCount + 1 ELSE hitCount
       /\ missCount' = IF value # <<>> THEN missCount ELSE missCount + 1
       /\ lastOp' = OpRecord("get", data, value)
       /\ UNCHANGED <<now, calls, latest, kept, disk, runs>>
       /\ UNCHANGED execVars

\* CacheManager.has: node-cache checks the entry as get does
CacheHas(data) ==
    LET key == generateKey("test", data)
    IN /\ lastOp.n < MaxOps
       /\ cacheStore' = storeAfterGet(cacheStore, key, now)
       /\ lastOp' = OpRecord("has", data,
                        IF IsLive(cacheStore, key, now) THEN <<"true">> ELSE <<"false">>)
       /\ UNCHANGED <<hitCount, missCount, now, calls, latest, kept, disk, runs>>
       /\ UNCHANGED execVars

\* variant: del leaves the entry in place
storeAfterDel_Nothing(store, key) == store

\* the store after CacheManager.del(key)
storeAfterDel(store, key) == Without(store, key)

\* CacheManager.del
CacheDel(data) ==
    LET key == generateKey("test", data)
    IN /\ lastOp.n < MaxOps
       /\ cacheStore' = storeAfterDel(cacheStore, key)
       /\ lastOp' = OpRecord("del", data,
                        IF key \in DOMAIN cacheStore THEN <<"1">> ELSE <<"0">>)
       /\ latest' = Without(latest, key)
       /\ kept' = Without(kept, key)
       /\ UNCHANGED <<hitCount, missCount, now, calls, disk, runs>>
       /\ UNCHANGED execVars

\* CacheManager.flush
CacheFlush ==
    /\ lastOp.n < MaxOps
    /\ cacheStore' = EmptyStore
    /\ hitCount' = 0
    /\ missCount' = 0
    /\ lastOp' = [OpRecord("flush", <<>>, <<>>) EXCEPT !.key = <<"", <<>>>>]
    /\ latest' = NoSets
    /\ kept' = NoSets
    /\ UNCHANGED <<now, calls, disk, runs>>
    /\ UNCHANGED execVars

\* node-cache's periodic check (checkperiod) deletes the dead entries
CheckPeriod ==
    /\ \E k \in DOMAIN cacheStore : ~IsLive(cacheStore, k, now)
    /\ cacheStore' = [k \in {j \in DOMAIN cacheStore : IsLive(cacheStore, j, now)} |->
                        cacheStore[k]]
    /\ UNCHANGED <<hitCount, missCount, now, calls>>
    /\ UNCHANGED clientVars
    /\ UNCHANGED execVars

NextStore ==
    \/ \E data \in StoreObjects : \E value \in StoreValues : \E ttl \in StoreTTLs :
          CacheSet(data, value, ttl)
    \/ \E data \in StoreObjects : CacheGet(data)
    \/ \E data \in StoreObjects : CacheHas(data)
    \/ \E data \in StoreObjects : CacheDel(data)
    \/ CacheFlush
    \/ CheckPeriod
    \/ Tick

SpecStore == InitCache /\ [][NextStore]_vars

(***************************************************************************)
(* The analysis, validation and optimization tools over the cache          *)
(***************************************************************************)
Contents == { <<"c1">>, <<"c2">> }

\* a file that does not exist
MissingPath == <<"models", "/", "none", ".glb">>

ToolInputs == {ModelPath, MissingPath}

\* FileHandler.processFile: `File not found: ${filePath}`
FileNotFound == [kind |-> "File not found", step |-> 0, text |-> <<>>]

\* `Unknown preset: ${preset}`
UnknownPreset == [kind |-> "Unknown preset", step |-> 0, text |-> <<>>]

\* fs.copy of a source that does not exist
CopyError == [kind |-> "ENOENT", step |-> 0, text |-> <<"copy">>]

\* for the tools the clock counts half hours, the shortest ttl among them
\* the ttl of the validation and optimization results: 1800 seconds
ShortTTL == 1

\* the ttl of the analysis results: 3600 seconds
AnalysisTTL == 2

\* generateKey for a string: JSON.stringify gives the string in quotes
generateKeyOfString(prefix, str) == <<prefix, str>>

\* performAnalysis: the analysis is computed from the document read from the file
AnalysisOf(filePath, content) == [filePath |-> filePath, content |-> content]

\* validateWithJSAPI / basicValidation: the report on the file as it is read
ReportOf(filePath, rules, content) ==
    [filePath |-> filePath, rules |-> rules, content |-> content]

\* generateOptimizationResult: the artifacts and the figures of the document
OptimizationOf(optimizedPath, content) ==
    [artifacts |-> [optimized |-> optimizedPath], content |-> content]

\* FileHandler.createTempPath: a fresh name under the temp directory
createTempPath(n, ext) == <<"tmp", "/", NumStr(n), ext>>

\* the store once a miss has been followed by set(key, value, ttl)
storeAfterMiss(store, key, value, ttl, clock) ==
    LET s == storeAfterGet(store, key, clock)
    IN IF cacheIsFull(s) THEN s ELSE storeAfterSet(s, key, value, ttl, clock)

ToolOp(op, filePath, key, env) ==
    [op |-> op, data |-> filePath, key |-> key, result |-> env, at |-> now,
     n |-> lastOp.n + 1]

\* a tool over ModelAnalyzer.analyze or SimpleValidator.validate: the cached
\* value is returned when there is one, else the file is read, the result
\* stored under the key and returned
CachedRequest(op, filePath, key, fresh, ttl) ==
    LET exists == filePath \in DOMAIN disk
        hit == IsLive(cacheStore, key, now)
        full == cacheIsFull(storeAfterGet(cacheStore, key, now))
        env == IF ~exists THEN Failure(FileNotFound)
               ELSE IF hit THEN Success(cacheStore[key].v)
               ELSE IF full THEN Failure(CacheFullError)
               ELSE Success(fresh)
    IN /\ lastOp.n < MaxOps
       /\ cacheStore' = IF ~exists THEN cacheStore
                        ELSE IF hit THEN cacheStore
                        ELSE storeAfterMiss(cacheStore, key, fresh, ttl, now)
       /\ hitCount' = IF exists /\ hit THEN hitCount + 1 ELSE hitCount
       /\ missCount' = IF exists /\ ~hit THEN missCount + 1 ELSE missCount
       /\ latest' = IF exists /\ ~hit
                    THEN With(latest, key, SetRecord(filePath, fresh, ttl, now))
                    ELSE latest
       /\ kept' = IF exists /\ ~hit /\ ~full
                  THEN With(kept, key, SetRecord(filePath, fresh, ttl, now))
                  ELSE kept
       /\ lastOp' = ToolOp(op, filePath, key, env)
       /\ UNCHANGED <<now, calls, disk, runs>>
       /\ UNCHANGED execVars

\* analyzeModelTool.execute for an input of type 'file'
AnalyzeModel(filePath) ==
    CachedRequest("analyze", filePath, generateKeyOfString("analysis", filePath),
                  IF filePath \in DOMAIN disk THEN AnalysisOf(filePath, disk[filePath])
                  ELSE <<>>,
                  AnalysisTTL)

\* `params.rules || 'basic'`
rulesOrBasic(rules) == IF rules = Undefined THEN <<"basic">> ELSE rules

\* validateModelTool.execute for an input of type 'file'
ValidateModel(filePath, rules) ==
    CachedRequest("validate", filePath,
                  generateKey("validation",
                      << <<"filePath", filePath>>, <<"rules", rulesOrBasic(rules)>> >>),
                  IF filePath \in DOMAIN disk
                  THEN ReportOf(filePath, rulesOrBasic(rules), disk[filePath])
                  ELSE <<>>,
                  ShortTTL)

\* `params.preset || 'web-high'`
presetOrDefault(preset) == IF preset = Undefined THEN <<"web-high">> ELSE preset

\* ModelOptimizer.getPreset knows these names
PresetNames == { <<"web-high">>, <<"web-lite">>, <<"mobile">>, <<"editor-safe">> }

\* `result.data.artifacts.optimized = params.outputPath` on the object the
\* cache holds, node-cache being built with useClones: false
storedAfterToolEdit(store, key, outputPath) ==
    [store EXCEPT ![key].v.artifacts.optimized = outputPath]

\* optimizeModelTool.execute for an input of type 'file'
OptimizeModel(filePath, preset, outputPath) ==
    LET name == presetOrDefault(preset)
        key == generateKey("optimization",
                   << <<"filePath", filePath>>, <<"preset", name>> >>)
        exists == filePath \in DOMAIN disk
        known == name \in PresetNames
        hit == IsLive(cacheStore, key, now)
        full == cacheIsFull(storeAfterGet(cacheStore, key, now))
        tempPath == createTempPath(lastOp.n + 1, ".glb")
        fresh == OptimizationOf(tempPath, IF exists THEN disk[filePath] ELSE <<>>)
        \* ModelOptimizer.optimize
        ran == exists /\ known /\ ~hit
        written == IF ran THEN With(disk, tempPath, fresh.content) ELSE disk
        stored == IF ~(exists /\ known) THEN cacheStore
                  ELSE IF hit THEN cacheStore
                  ELSE storeAfterMiss(cacheStore, key, fresh, ShortTTL, now)
        optimized == IF ~exists THEN Failure(FileNotFound)
                     ELSE IF ~known THEN Failure(UnknownPreset)
                     ELSE IF hit THEN Success(cacheStore[key].v)
                     ELSE IF full THEN Failure(CacheFullError)
                     ELSE Success(fresh)
        \* the copy to params.outputPath
        copies == outputPath # NoPath /\ optimized.success
        source == optimized.data.artifacts.optimized
        copied == copies /\ source \in DOMAIN written
    IN /\ lastOp.n < MaxOps
       /\ disk' = IF copied THEN With(written, outputPath, written[source]) ELSE written
       /\ cacheStore' = IF copied THEN storedAfterToolEdit(stored, key, outputPath)
                        ELSE stored
       /\ hitCount' = IF exists /\ known /\ hit THEN hitCount + 1 ELSE hitCount
       /\ missCount' = IF ran THEN missCount + 1 ELSE missCount
       /\ latest' = IF ran THEN With(latest, key, SetRecord(filePath, fresh, ShortTTL, now))
                    ELSE latest
       /\ kept' = IF ran /\ ~full
                  THEN With(kept, key, SetRecord(filePath, fresh, ShortTTL, now))
                  ELSE kept
       /\ lastOp' = ToolOp("optimize", filePath, key,
                        IF copies /\ ~copied THEN Failure(CopyError)
                        ELSE IF copied
                        THEN Success([optimized.data EXCEPT !.artifacts.optimized = outputPath])
                        ELSE optimized)
       /\ UNCHANGED <<now, calls, runs>>
       /\ UNCHANGED execVars

\* the model file is replaced by another program
ModifyFile(filePath) ==
    /\ filePath \in DOMAIN InitialDisk
    /\ \E c \in Contents \ {disk[filePath]} : disk' = [disk EXCEPT ![filePath] = c]
    /\ UNCHANGED <<lastOp, latest, kept, runs>>
    /\ UNCHANGED cacheVars
    /\ UNCHANGED execVars

PresetSamples == { Undefined, <<"nope">> }

RulesSamples == { Undefined, <<"strict">> }

CopyTargets == { NoPath, <<"out", "/", "o", ".glb">> }

\* half an hour passes
HalfHour ==
    /\ now < MaxTime + 1
    /\ now' = now + 1
    /\ UNCHANGED <<cacheStore, hitCount, missCount, calls>>
    /\ UNCHANGED execVars
    /\ UNCHANGED clientVars

\* entries stored by the analysis of other files just before the tools are called
RecentStore(n) ==
    [k \in {generateKeyOfString("analysis", <<"models", "/", NumStr(j), ".glb">>) : j \in 1..n}
        |-> [v |-> AnalysisOf(k[2], <<"c1">>), t |-> AnalysisTTL]]

InitTools ==
    /\ Init!1 /\ Init!2 /\ Init!3 /\ Init!4 /\ Init!5 /\ Init!6 /\ Init!7
    /\ Init!8 /\ Init!9 /\ Init!10 /\ Init!11 /\ Init!12 /\ Init!13 /\ Init!14
    /\ cacheStore \in {RecentStore(n) : n \in {0, CacheMaxKeys - 1}}
    /\ Init!16 /\ Init!17 /\ Init!18 /\ Init!19
    /\ Init!20 /\ Init!21 /\ Init!22 /\ Init!23 /\ Init!24 /\ Init!25

NextTools ==
    \/ \E filePath \in ToolInputs : AnalyzeModel(filePath)
    \/ \E filePath \in ToolInputs : \E rules \in RulesSamples : ValidateModel(filePath, rules)
    \/ \E filePath \in ToolInputs : \E preset \in PresetSamples :
          \E outputPath \in CopyTargets : OptimizeModel(filePath, preset, outputPath)
    \/ \E filePath \in ToolInputs : ModifyFile(filePath)
    \/ CheckPeriod
    \/ HalfHour

SpecTools == InitTools /\ [][NextTools]_vars

(***************************************************************************)
(* Two runs of executeMultiStep side by side on one file system            *)
(***************************************************************************)
RaceInput == <<"models", "/", "a", ".glb">>

\* the same file name in another directory
RaceInputElsewhere == <<"other", "/", "a", ".glb">>

RaceRequests ==
    { RequestOf(RaceInput, NoPath, "", FALSE, {"draco", "webp", "prune"}, FALSE),
      RequestOf(RaceInput, <<"out", "/", "b", ".glb">>, "", FALSE, {"draco", "prune"}, FALSE),
      RequestOf(RaceInput, NoPath, "", FALSE, {"webp", "prune"}, FALSE),
      RequestOf(RaceInputElsewhere, NoPath, "", FALSE, {"draco", "webp", "prune"}, FALSE) }

RaceDisk == [p \in {RaceInput, RaceInputElsewhere} |-> <<"c1">>]

\* what a command of run r writes into its output file
RunTag(r) == <<"run", NumStr(r)>>

\* the file at path was last written by a run other than r
OwnedByOther(r, path) ==
    /\ path \in DOMAIN disk
    /\ \E s \in RunIds \ {r} : disk[path] = RunTag(s)

raceVars == <<pc, entry, request, options, steps, i, currentInput, stepLog,
              executed, commands, lastExec, error, result, files,
              cacheStore, hitCount, missCount, now, calls, lastOp, latest, kept,
              rmLog>>

\* execute for a request that takes more than one step, up to its first await
RaceSubmit(r, req) ==
    /\ runs[r].pc = "idle"
    /\ Len(planExecutionSteps(req)) > 1
    /\ runs' = [runs EXCEPT ![r] =
                  [pc |-> "exec", options |-> req, steps |-> planExecutionSteps(req),
                   i |-> 0, currentInput |-> req.inputPath, met |-> {}]]
    /\ UNCHANGED disk
    /\ UNCHANGED raceVars

\* one iteration of the loop from its start to the return of the step's command
RaceExec(r, out) ==
    LET run == runs[r]
        isLastStep == run.i = Len(run.steps) - 1
        stepOutput == stepOutputOf(run.options, run.steps, run.i)
        target == cleanupTarget(run.options, run.steps, run.i)
        reads == IF run.i > 0 /\ OwnedByOther(r, run.currentInput) THEN {"read"} ELSE {}
        overwrites == IF ~isLastStep /\ OwnedByOther(r, stepOutput)
                      THEN {"overwrite"} ELSE {}
    IN /\ run.pc = "exec"
       /\ IF run.currentInput \notin DOMAIN disk \/ out.exit # 0
          THEN \* the command fails and execAsync rejects
               /\ runs' = [runs EXCEPT ![r].pc = "failed"]
               /\ UNCHANGED disk
          ELSE IF isFatalStderr(out.stderr)
          THEN /\ runs' = [runs EXCEPT ![r].pc = "failed",
                                       ![r].met = @ \cup reads \cup overwrites]
               /\ disk' = With(disk, stepOutput, RunTag(r))
          ELSE /\ runs' = [runs EXCEPT
                              ![r].pc = IF isLastStep THEN "done"
                                        ELSE IF target # {} THEN "cleanup" ELSE "exec",
                              ![r].i = IF target # {} THEN @ ELSE @ + 1,
                              ![r].currentInput = stepOutput,
                              ![r].met = @ \cup reads \cup overwrites]
               /\ disk' = With(disk, stepOutput, RunTag(r))
       /\ UNCHANGED raceVars

\* the rm of the previous intermediate file; its failure is only logged
RaceCleanup(r) ==
    LET run == runs[r]
        target == cleanupTarget(run.options, run.steps, run.i)
        deletes == IF \E t \in target : OwnedByOther(r, t) THEN {"delete"} ELSE {}
    IN /\ run.pc = "cleanup"
       /\ disk' = [p \in DOMAIN disk \ target |-> disk[p]]
       /\ runs' = [runs EXCEPT ![r].pc = "exec", ![r].i = @ + 1,
                               ![r].met = @ \cup deletes]
       /\ UNCHANGED raceVars

InitRace ==
    /\ Init!1 /\ Init!2 /\ Init!3 /\ Init!4 /\ Init!5 /\ Init!6 /\ Init!7
    /\ Init!8 /\ Init!9 /\ Init!10 /\ Init!11 /\ Init!12 /\ Init!13 /\ Init!14
    /\ Init!15 /\ Init!16 /\ Init!17 /\ Init!18 /\ Init!19
    /\ Init!20 /\ Init!21 /\ Init!22
    /\ disk = RaceDisk
    /\ Init!24 /\ Init!25

NextRace ==
    \/ \E r \in RunIds : \E req \in RaceRequests : RaceSubmit(r, req)
    \/ \E r \in RunIds : \E out \in CallOutcomes : RaceExec(r, out)
    \/ \E r \in RunIds : RaceCleanup(r)

SpecRace == InitRace /\ [][NextRace]_vars

(***************************************************************************)
(* gltfPipelineMcp.tools.process.execute over the GltfPipelineExecutor     *)
(***************************************************************************)
\* an args object with the fields that are given, in the order of the list
FieldIf(f, v) == IF v = Undefined THEN <<>> ELSE << <<f, v>> >>

PipelineArgsOf(inputPath, outputPath, outputFormat, binary, draco) ==
    FieldIf("inputPath", inputPath) \o FieldIf("outputPath", outputPath)
    \o FieldIf("outputFormat", outputFormat) \o FieldIf("binary", binary)
    \o FieldIf("draco", draco)

PipelineArgs ==
    {PipelineArgsOf(ip, op, fmt, bin, dr) :
        ip \in ToolInputs,
        op \in {Undefined, <<"out", "/", "b", ".glb">>, <<"out", "/", "b", ".gltf">>},
        fmt \in {Undefined, <<"glb">>, <<"gltf">>},
        bin \in {Undefined, JsTrue, <<"false">>},
        dr \in {Undefined, JsTrue}}

\* `if (args.outputFormat === 'glb') args.binary = true`, then the output path
\* that is generated when none is given
pipelineToolNormalize(args) ==
    LET a == IF Get(args, "outputFormat") = <<"glb">> THEN Put(args, "binary", JsTrue)
             ELSE args
    IN IF IsTruthy(Get(a, "outputPath")) THEN a
       ELSE Put(a, "outputPath", processOutputPath(a))

\* the whole handler: the input is looked up, the args normalized, the command
\* built and run, and the envelope returned
PipelineToolExecute(args, out) ==
    LET exists == Get(args, "inputPath") \in DOMAIN disk
        o == pipelineToolNormalize(args)
        command == pipelineBuildCommand(o)
        env == IF ~exists THEN Failure(InputNotFound)
               ELSE IF out.exit # 0 THEN Failure(ExecRejection(out.stderr))
               ELSE IF isPipelineFatal(out.stderr) THEN Failure(PipelineError(out.stderr))
               ELSE Success([inputPath |-> Get(o, "inputPath"),
                             outputPath |-> Get(o, "outputPath"),
                             command |-> command])
    IN /\ lastOp.n < MaxOps
       /\ lastOp' = ToolOp("pipeline", IF exists THEN o ELSE args, <<"", <<>>>>, env)
       /\ UNCHANGED <<latest, kept, disk, runs>>
       /\ UNCHANGED cacheVars
       /\ UNCHANGED execVars

NextPipeline ==
    \E args \in PipelineArgs : \E out \in CallOutcomes : PipelineToolExecute(args, out)

SpecPipeline == Init /\ [][NextPipeline]_vars

(***************************************************************************)
(* Properties                                                              *)
(***************************************************************************)
Started == pc # "idle"

Finished == pc \in {"done", "failed"}

IsInspection(o) == Truthy(o, "inspect") \/ Truthy(o, "validate")

EndsWith(p, ext) == Len(p) >= 1 /\ Last(p) = ext

\* C1: every StepOptions built by executeMultiStep has at most one truthy
\* operation flag, counting all operation flags of the request.
C1_StepIsolation ==
    \A k \in 1..Len(stepLog) : Cardinality(TruthyOperations(stepLog[k])) <= 1

\* C2: in a multi-step run the command executed for step k has the plan's
\* step name steps[k] as its subcommand.
C2_StepCommandIsPlanStep ==
    Len(steps) > 1 =>
        \A k \in 1..Len(executed) : SubcommandOf(executed[k]) = steps[k]

\* C3: in a multi-step run the output path of each step is the input path of
\* the next one, in the StepOptions and in the commands, and the first step
\* reads the request's original input path.
C3_Chaining ==
    Len(steps) > 1 =>
        /\ \A k \in 1..Len(stepLog) :
              /\ InputOf(executed[k]) = stepLog[k].inputPath
              /\ OutputOf(executed[k]) = stepLog[k].outputPath
        /\ \A k \in 1..(Len(stepLog) - 1) :
              stepLog[k].outputPath = stepLog[k + 1].inputPath
        /\ Len(stepLog) >= 1 => stepLog[1].inputPath = request.inputPath

C3_Witness ==
    /\ pc = "done"
    /\ Len(stepLog) = 3
    /\ stepLog[2].inputPath # request.inputPath

\* C4: after a successful execute, the output path of the last executed
\* command is the request's output path when given and otherwise
\* <dir>/<basename>_transformed<ext>, for one step or several.
C4_FinalOutputIsResolvedPath ==
    (pc = "done" /\ ~IsInspection(request)) =>
        OutputOf(Last(executed)) = builderOutputPath(request)

\* the extension required by outputFormat / binary
RequiredExt(o) == IF o.outputFormat = "glb" \/ o.binary = TRUE THEN ".glb" ELSE ".gltf"

\* C5 as stated: for every request the resolved output path ends in .glb when
\* outputFormat=glb or binary=true and in .gltf otherwise.
C5_ExtensionOfEveryRequest ==
    (Started /\ entry = "tool") => EndsWith(options.outputPath, RequiredExt(request))

\* C5 amended: for every request without an explicit outputPath, the output
\* path derived for it, by the tool, by buildCommand and by executeMultiStep,
\* ends in .glb when outputFormat=glb or binary=true and in .gltf otherwise.
C5_ExtensionOfDerivedPath ==
    (Started /\ request.outputPath = NoPath) =>
        /\ entry = "tool" => EndsWith(options.outputPath, RequiredExt(request))
        /\ EndsWith(builderOutputPath(request), RequiredExt(request))
        /\ EndsWith(multiStepFinalOutput(request), RequiredExt(request))

C5_Witness ==
    /\ Started
    /\ entry = "tool"
    /\ request.outputPath = NoPath
    /\ request.outputFormat = "gltf"
    /\ request.binary
    /\ extname(request.inputPath) = ".gltf"
    /\ EndsWith(options.outputPath, ".glb")

\* C6: a request with no operation flag set is planned as exactly <<"copy">>,
\* and no plan is empty.
C6_CopyWhenNoFlags ==
    Started =>
        /\ Len(steps) >= 1
        /\ (TruthyOperations(request) = {} /\ ~IsInspection(request)) => steps = <<"copy">>

C6_Witness ==
    /\ Started
    /\ TruthyOperations(request) = {}
    /\ ~IsInspection(request)
    /\ steps = <<"copy">>

\* the fixed order of the scanned flags
PriorityOrder ==
    <<"meshopt", "draco", "quantize", "weld", "simplify", "etc1s", "uastc",
      "webp", "avif", "png", "jpeg", "optimize", "dedup", "prune">>

PriorityOf(f) == CHOOSE k \in 1..Len(PriorityOrder) : PriorityOrder[k] = f

\* C7: without inspect and validate, the plan names every set flag among the
\* fourteen scanned ones exactly once, in the fixed order, and nothing else.
C7_PlanInPriorityOrder ==
    (Started /\ ~IsInspection(request)) =>
        /\ \A k \in 1..Len(PriorityOrder) :
              Cardinality({j \in 1..Len(steps) : steps[j] = PriorityOrder[k]})
                 = IF Truthy(request, PriorityOrder[k]) THEN 1 ELSE 0
        /\ \A j \in 1..Len(steps) : steps[j] \in PlannerFlags \/ steps = <<"copy">>
        /\ \A j, k \in 1..Len(steps) :
              (j < k /\ steps # <<"copy">>) => PriorityOf(steps[j]) < PriorityOf(steps[k])

C7_Witness ==
    /\ Started
    /\ {"prune", "optimize", "webp", "draco", "meshopt"} \subseteq request.flags
    /\ Len(steps) >= 5

\* C8: a request with inspect or validate runs exactly one command, which
\* names only the input path, whatever the other options are.
C8_InspectionIsTerminal ==
    (Started /\ IsInspection(request)) =>
        /\ steps = << IF Truthy(request, "inspect") THEN "inspect" ELSE "validate" >>
        /\ Len(executed) <= 1
        /\ Finished =>
              executed = << << <<"gltf-transform">>,
                               << IF Truthy(request, "inspect") THEN "inspect" ELSE "validate" >>,
                               <<"\"">> \o request.inputPath \o <<"\"">> >> >>

C8_Witness ==
    /\ pc = "done"
    /\ Truthy(request, "validate")
    /\ Cardinality(TruthyOperations(request) \cap PlannerFlags) >= 2
    /\ request.vertexLayout # ""
    /\ Len(executed) = 1

\* some keyword occurs in text, letters compared without regard to case
MentionsKeyword(text) ==
    \E a \in 1..Len(text) : \E b \in a..Len(text) :
        [j \in 1..(b - a + 1) |-> FoldCase(text[a + j - 1])]
            \in { <<"e", "r", "r", "o", "r">>,
                  <<"f", "a", "i", "l", "e", "d">>,
                  <<"e", "x", "c", "e", "p", "t", "i", "o", "n">> }

\* C10: a run that exits with status 0 fails with an error carrying the
\* stderr text when stderr mentions error, failed or exception in any letter
\* case, and succeeds when stderr is empty or mentions none of them.
C10_FatalKeywordClassification ==
    lastExec.exit = 0 =>
        IF MentionsKeyword(lastExec.stderr)
        THEN pc = "failed" /\ error # NoError /\ error.text = lastExec.stderr
        ELSE pc # "failed" /\ error = NoError

C10_Witness ==
    /\ pc = "failed"
    /\ Len(stepLog) = 2
    /\ lastExec = [exit |-> 0, stderr |-> <<"F", "A", "I", "L", "E", "D">>]

(***************************************************************************)
(* Cached operations                                                       *)
(***************************************************************************)
\* call q starts in this step
Starts(q) == calls[q].pc = "idle" /\ calls'[q].pc # "idle"

\* call p has returned and call q, which starts in this step with the
\* operation and the parameters of p, does so within the ttl of p's return
InSuccession(p, q) ==
    /\ p # q
    /\ calls[p].pc = "returned"
    /\ Starts(q)
    /\ calls'[q].op = calls[p].op
    /\ calls'[q].request = calls[p].request
    /\ now <= calls[p].endTime + ProcessTTL

\* no other call for the key of p was in flight while p was
Alone(p) ==
    \A r \in CallIds \ {p} :
        (calls[r].pc # "idle" /\ calls[r].key = calls[p].key)
            => (r \in calls[p].after \/ p \in calls[r].after)

\* the second call does not invoke the executor again and returns the first's data
Replayed(p, q) ==
    /\ ~(calls[p].invoked /\ calls'[q].invoked)
    /\ calls'[q].pc = "returned"
    /\ calls'[q].envelope.data = calls[p].envelope.data

C11_EnvelopeForEveryOutcome ==
    \A c \in CallIds :
        /\ calls[c].pc # "threw"
        /\ calls[c].pc = "returned" =>
              (calls[c].envelope.success <=> calls[c].envelope.error = NoError)

\* a call that ran the executor and ended with the failure envelope of a
\* cache error, next to a call that returned success
C11_Witness ==
    \E c, d \in CallIds :
        /\ calls[c].pc = "returned" /\ calls[c].op = "process" /\ calls[c].invoked
        /\ ~calls[c].envelope.success /\ calls[c].envelope.error = CacheFullError
        /\ calls[d].pc = "returned" /\ calls[d].envelope.success

\* the run is over and its caller has returned
Over == pc \in {"done", "failed", "rejected"}

\* C12: every envelope returned by a tool carries the metrics
\* processingTime and memoryUsage, on success and on failure.
C12_MetricsOnEveryEnvelope ==
    Over => {"processingTime", "memoryUsage"} \subseteq returnedEnvelope.metrics

\* C13: a request whose texture encoder is outside the known set after the
\* alias jpg -> jpeg is resolved fails with an error, and no command is
\* handed to execAsync for it.
C13_UnsupportedEncoderFailsFast ==
    (Started /\ normalizeEncoder(request.textureFormat) = UnsupportedEncoder) =>
        /\ executed = <<>>
        /\ pc # "done"

\* what get(key) returns at instant `at` of a map built from the sets `sets`:
\* the value while its ttl has not run out, null (<<>>) otherwise
ExpectedGet(sets, key, at) ==
    IF key \in DOMAIN sets /\ (sets[key].ttl = 0 \/ at <= sets[key].at + sets[key].ttl)
    THEN sets[key].v
    ELSE <<>>

BehavesAsMapOf(sets) ==
    /\ lastOp.op = "get" => lastOp.result = ExpectedGet(sets, lastOp.key, lastOp.at)
    /\ lastOp.op = "has" =>
          (lastOp.result = <<"true">>) = (ExpectedGet(sets, lastOp.key, lastOp.at) # <<>>)

FieldsOf(obj) == {obj[j] : j \in {n \in DOMAIN obj : IsDefined(obj[n])}}

\* C15: any two parameter objects with the same fields and values produce the
\* same key for the same prefix, in whatever order their fields were inserted:
\* the key generated for a call is the key under which an object with the same
\* fields was set.
C15_KeyIgnoresInsertionOrder ==
    \A k \in DOMAIN latest :
        lastOp.op \in {"set", "get", "has", "del"}
        /\ FieldsOf(latest[k].data) = FieldsOf(lastOp.data)
        => lastOp.key = k

\* C16: the cache is content-hash based: when the content of the input file
\* has changed between two otherwise identical analysis or validation
\* requests, the second request does not return the result cached for the old
\* content, so every result returned is the result for the file as it is.
C16_ResultIsOfCurrentContent ==
    [][ (lastOp'.n # lastOp.n
         /\ lastOp'.op \in {"analyze", "validate"}
         /\ lastOp'.result.success)
        => lastOp'.result.data.content = disk[lastOp'.data] ]_vars

\* C17: the data of a stored entry is never changed by a caller: get(key)
\* returns data equal to what was passed to the most recent set for the key.
C17_StoredDataUnchanged ==
    \A k \in DOMAIN kept :
        IsLive(cacheStore, k, now) => cacheGet(cacheStore, k, now) = kept[k].v

\* the command of call c succeeded and its output was found: process went on
\* to store the result
ReachedSet(call) ==
    /\ call.pc = "returned" /\ call.op = "process" /\ call.invoked
    /\ call.envelope.success \/ call.envelope.error = CacheFullError

\* C18: a failure of the cache layer degrades to a miss and never aborts the
\* operation: a call to process whose command succeeded returns success, even
\* when the set of its result was refused.
C18_CacheFailureDegradesToMiss ==
    \A c \in CallIds : ReachedSet(calls[c]) => calls[c].envelope.success

\* call q, started before p returned, returns in this step after p, both
\* having missed on the same key and both having run their command with success
BothWrite(p, q) ==
    /\ p # q
    /\ calls[q].pc = "awaiting"
    /\ p \notin calls[q].after
    /\ calls[q].key = calls[p].key
    /\ ReachedSet(calls[p])
    /\ ReachedSet(calls'[q])

\* C19: when two concurrent requests for the same uncached key both miss, both
\* run the command and both write the entry, both return success and the
\* cache then holds one entry for the key, the one written last.
C19_ConcurrentMissesBothSucceed ==
    [][\A p, q \in CallIds :
          BothWrite(p, q) =>
              /\ calls[p].envelope.success
              /\ calls'[q].envelope.success
              /\ calls[p].key \in DOMAIN cacheStore'
              /\ cacheStore'[calls[p].key].v = calls'[q].envelope.data]_vars

\* the inputs of two requests have the same basename and extension in the
\* same directory
SameSource(o1, o2) ==
    /\ extname(o1.inputPath) = extname(o2.inputPath)
    /\ basename(o1.inputPath, extname(o1.inputPath))
          = basename(o2.inputPath, extname(o2.inputPath))
    /\ dirname(o1.inputPath) = dirname(o2.inputPath)

\* the step names of both runs agree at index k, an intermediate step of both
SharedStep(r, s, k) ==
    /\ k < Len(runs[r].steps) /\ k < Len(runs[s].steps)
    /\ runs[r].steps[k] = runs[s].steps[k]

\* C20: two concurrent multi-step requests whose inputs have the same
\* basename and extension in the same directory and which share a step name
\* at the same index use the same intermediate file path for that step (the
\* witness is the interleaving in which one of them overwrites, reads and
\* deletes the other's intermediate file).
C20_SameIntermediatePath ==
    \A r, s \in RunIds : \A k \in 1..Len(runs[r].steps) :
        (r # s /\ runs[r].pc # "idle" /\ runs[s].pc # "idle"
         /\ SameSource(runs[r].options, runs[s].options) /\ SharedStep(r, s, k))
        => intermediateFile(runs[r].options, k, runs[r].steps[k])
              = intermediateFile(runs[s].options, k, runs[s].steps[k])

C20_Witness ==
    \E r, s \in RunIds :
        /\ r # s /\ runs[r].pc # "idle" /\ runs[s].pc # "idle"
        /\ SameSource(runs[r].options, runs[s].options)
        /\ SharedStep(r, s, 1)
        /\ "overwrite" \in runs[r].met
        /\ "read" \in runs[s].met
        /\ "delete" \in runs[r].met \cup runs[s].met

\* in this step the analysis or the validation tool is asked again for a key
\* under which it has stored a result
AskedAgain ==
    /\ lastOp'.n # lastOp.n
    /\ lastOp'.op \in {"analyze", "validate"}
    /\ lastOp'.key \in DOMAIN kept

\* the ttl of the set has run out
Elapsed(e, clock) == e.ttl # 0 /\ clock > e.at + e.ttl

\* C21: an identical request is answered from the cache until the ttl of the
\* entry has elapsed; the first identical request after that is a miss that
\* computes the result again and stores a fresh entry.
C21_CachedUntilTtlThenFresh ==
    [][AskedAgain =>
          LET k == lastOp'.key
          IN IF ~Elapsed(kept[k], now)
             THEN /\ lastOp'.result = Success(kept[k].v)
                  /\ latest' = latest
                  /\ kept' = kept
             ELSE /\ lastOp'.result.success
                  /\ latest'[k].at = now
                  /\ kept'[k].at = now
                  /\ IsLive(cacheStore', k, now)]_vars

\* the intermediate files of the plan: the outputs of steps 1..N-1
IntermediateFiles ==
    {intermediateFile(options, k, steps[k]) : k \in 1..(Len(steps) - 1)}

RmPaths == {rmLog[j].path : j \in 1..Len(rmLog)}

AllRmOk(log) == \A j \in 1..Len(log) : log[j].ok

\* C22: when a plan of two or more steps has completed, a deletion has been
\* issued for every intermediate file, and when the deletions succeeded no
\* file written by the run is left but the final output.
C22_EveryIntermediateDeleted ==
    (pc = "done" /\ Len(steps) >= 2) =>
        /\ IntermediateFiles \subseteq RmPaths
        /\ AllRmOk(rmLog) => files \subseteq {multiStepFinalOutput(options)}

\* C23: the clean-up deletes an intermediate file only after the step that
\* reads it has completed with success, and never the original input of the
\* request nor its final output.
C23_CleanupAfterReader ==
    \A j \in 1..Len(rmLog) :
        /\ rmLog[j].path # request.inputPath
        /\ rmLog[j].path # multiStepFinalOutput(options)
        /\ rmLog[j].path \in IntermediateFiles
        /\ \E k \in 1..rmLog[j].after : InputOf(commands[k]) = rmLog[j].path
        /\ \A k \in 1..Len(executed) :
              InputOf(executed[k]) = rmLog[j].path => k <= rmLog[j].after

C23_Witness ==
    /\ pc = "done"
    /\ Len(rmLog) >= 1
    /\ rmLog[1].ok
    /\ rmLog[1].path \notin files

\* the 1-based index of the step whose command failed
FailedStep == Len(commands) + 1

\* C24: in a multi-step run any failure of a step, by a non-zero exit as well
\* as by fatal stderr, aborts the remaining steps and raises an error that
\* carries the 1-based index of the step.
C24_StepFailureCarriesIndex ==
    (pc = "failed" /\ Len(steps) >= 2) =>
        /\ Len(executed) = FailedStep
        /\ error.step = FailedStep

\* C25: a failed deletion never fails the run: the run fails only by a step
\* command, and when every step command has succeeded all steps have run and
\* the joined commands are returned, whatever the outcome of each deletion.
C25_CleanupFailureSwallowed ==
    Len(steps) >= 2 =>
        /\ pc = "failed" => (lastExec.exit # 0 \/ isFatalStderr(lastExec.stderr))
        /\ pc = "done" => /\ Len(commands) = Len(steps)
                          /\ result = joinCommands(commands)
                          /\ error = NoError

C25_Witness ==
    /\ pc = "done"
    /\ Len(rmLog) >= 1
    /\ ~rmLog[1].ok
    /\ rmLog[1].path \in files

\* C30: while the steps of a request run, and provided the deletions succeed,
\* at most two files written by the request exist at any moment: before a
\* step, between its command and its clean-up, and after it.
C30_AtMostTwoFiles ==
    [][(Len(steps) >= 2 /\ AllRmOk(rmLog')) => Cardinality(files \cup files') <= 2]_vars

C30_Witness ==
    /\ pc = "done"
    /\ Len(steps) = 3
    /\ Len(rmLog) = 1
    /\ AllRmOk(rmLog)
    /\ Cardinality(files) = 2

(***************************************************************************)
(* The precedence of the primary command                                   *)
(***************************************************************************)
\* the options object from which the k-th executed command was built
BuiltFrom(k) == IF k <= Len(stepLog) THEN stepLog[k] ELSE options

GeometryOps ==
    {"draco", "meshopt", "simplify", "weld", "unweld", "quantize", "dequantize",
     "tangents", "unwrap", "reorder"}

SceneOps == {"center", "instance", "flatten", "join"}

MaterialOps == {"metalrough", "palette", "unlit"}

TextureOps ==
    {"resize", "etc1s", "uastc", "ktxdecompress", "ktxfix", "avif", "webp",
     "png", "jpeg"}

AnimationOps == {"resample", "sequence", "sparse"}

StructuralOps == {"dedup", "prune", "partition", "gzip"}

\* the place of an option in the stated precedence, 1 first
PrecedenceRank(f) ==
    CASE f = "merge" -> 1
      [] f = "optimize" -> 2
      [] f \in GeometryOps -> 3
      [] f \in SceneOps -> 4
      [] f \in MaterialOps -> 5
      [] f \in TextureOps -> 6
      [] f \in AnimationOps -> 7
      [] f \in StructuralOps -> 8
      [] f = "textureCompress" -> 9
      [] OTHER -> 10

\* the same, with optimize in front of merge
PrecedenceRankOptimizeFirst(f) ==
    CASE f = "optimize" -> 1
      [] f = "merge" -> 2
      [] OTHER -> PrecedenceRank(f)

\* the best place among the options that are set, 10 (copy) when none is
BestRank(Rank(_), o) ==
    IF TruthyOperations(o) = {} THEN 10
    ELSE CHOOSE r \in 1..9 :
            /\ \E f \in TruthyOperations(o) : Rank(f) = r
            /\ \A f \in TruthyOperations(o) : Rank(f) >= r

\* cmd names one primary command, of the best place among the options of o
FollowsPrecedence(Rank(_), cmd, o) ==
    LET sub == SubcommandOf(cmd)
        r == BestRank(Rank, o)
    IN /\ Len(cmd) >= 2
       /\ cmd[1] = Word("gltf-transform")
       /\ Len(cmd[2]) = 1
       /\ CASE r = 10 -> sub = "copy"
            [] r = 9 -> sub = LegacyTextureCommand(o)
            [] OTHER -> Truthy(o, sub) /\ Rank(sub) = r

\* C26: every command built for a transform request names exactly one primary
\* command, and that command is the first one set in the precedence merge,
\* optimize, geometry, scene, material, texture, animation, structural,
\* legacy textureCompress, copy; a request with a non-empty merge list and
\* optimize yields the merge command.
C26_PrimaryCommandPrecedence ==
    \A k \in 1..Len(executed) :
        ~IsInspection(BuiltFrom(k))
        => FollowsPrecedence(PrecedenceRank, executed[k], BuiltFrom(k))

\* C26, with optimize in front of merge: every command built for a transform
\* request names exactly one primary command, the first one set in the
\* precedence optimize, merge, geometry, scene, material, texture, animation,
\* structural, legacy textureCompress, copy.
C26_OptimizeBeforeMerge ==
    \A k \in 1..Len(executed) :
        ~IsInspection(BuiltFrom(k))
        => FollowsPrecedence(PrecedenceRankOptimizeFirst, executed[k], BuiltFrom(k))

C26_Witness ==
    /\ Len(executed) >= 1
    /\ Truthy(BuiltFrom(1), "merge")
    /\ Truthy(BuiltFrom(1), "optimize")
    /\ Truthy(BuiltFrom(1), "flatten")
    /\ SubcommandOf(executed[1]) = "optimize"

(***************************************************************************)
(* The default ttl of the CacheManager                                     *)
(***************************************************************************)
\* the last call is a get of a key whose standing entry was stored by a set
\* without ttl more than stdTTL ago
GetAfterDefaultTtl ==
    /\ lastOp.op = "get"
    /\ lastOp.key \in DOMAIN kept
    /\ kept[lastOp.key].ttl = ttlOrZero(Undefined)
    /\ lastOp.at - kept[lastOp.key].at > stdTTL

\* C27: an entry stored by set without a ttl expires after stdTTL: a get made
\* once that time has elapsed returns null.
C27_DefaultTtlExpires ==
    GetAfterDefaultTtl => lastOp.result = <<>>

(***************************************************************************)
(* Every requested operation is run                                        *)
(***************************************************************************)
\* the subcommand under which operation f of request o is run
CommandNameOf(o, f) == IF f = "textureCompress" THEN LegacyTextureCommand(o) ELSE f

\* C28: when a transform request without inspect or validate has completed,
\* every operation flag set in it is the subcommand of one of the executed
\* commands: no requested operation is dropped.
C28_NoOperationDropped ==
    (pc = "done" /\ ~IsInspection(options)) =>
        \A f \in TruthyOperations(options) :
            \E k \in 1..Len(executed) :
                SubcommandOf(executed[k]) = CommandNameOf(options, f)

(***************************************************************************)
(* The binary flag of the gltf-pipeline command                            *)
(***************************************************************************)
\* the request of the last call asks for binary output and its output path
\* ends in .glb
ResolvesToBinary ==
    /\ lastOp.op = "pipeline"
    /\ lastOp.result.success
    /\ \/ IsTruthy(Get(lastOp.data, "binary"))
       \/ Get(lastOp.data, "outputFormat") = <<"glb">>
    /\ EndsWith(Get(lastOp.data, "outputPath"), GLB_EXT)

HasFlag(cmd, flag) == \E k \in 1..Len(cmd) : cmd[k] = Word(flag)

\* C29: whenever a request to the gltf-pipeline tool resolves to binary output
\* (binary is true or outputFormat is glb, and the output path ends in .glb),
\* the command that was built contains -b.
C29_BinaryFlagForBinaryOutput ==
    ResolvesToBinary => HasFlag(lastOp.result.data.command, "-b")

==============================================================================
